---------------------------- MODULE Spec2Model ----------------------------
(***************************************************************************)
(* The history reconstruction of gait: getGitHistory and                   *)
(* getGitHistoryThatTouchesFile replay the commit log of the tracked       *)
(* snapshot file and attribute every chat message to a commit.             *)
(*                                                                         *)
(* The repository holds two revisions of this code.  src/src/extension.ts  *)
(* carries the revision without inline chats, whose result is              *)
(* {commits, uncommitted}; src/gait_context.md carries the listing of the  *)
(* revision with inline chats, whose result is {commits, added,            *)
(* uncommitted}.  Both are modelled; the variable revision says which one  *)
(* a behaviour runs.                                                       *)
(*                                                                         *)
(* A message is modelled by its id, a panel chat by its id and its list of *)
(* message ids, an inline chat by its id: the walk reads nothing else of   *)
(* them.  A commit hash is the commit's position in the log.               *)
(***************************************************************************)
EXTENDS Integers, Sequences, FiniteSets, TLC

VARIABLES
    revision,            \* "extension" (src/src/extension.ts) or "context" (src/gait_context.md)
    fn,                  \* the exported function that runs
    missing,             \* which of the two files the entry check does not find
    stored,              \* the current snapshot: the tracked file (extension), workspaceState 'stashedState' (context)
    pc,                  \* the position of the running call
    currentMessageIds,   \* Set<string> built in step 1
    currentPanelChatIds, \* Set<string> built in step 1
    currentInlineChatIds,\* Set<string> built in step 1 (context revision)
    deletedPanelChatIds, \* the current ledger, as read in step 1
    deletedMessageIds,   \* the current ledger, as read in step 1
    repo,                \* the commits of the log walked so far, oldest first
    allCommitsMap,       \* Map<string, CommitData> in insertion order
    seenMessageIds,      \* Set<string> shared by the whole walk
    status,              \* what git.status() answered for the path the tail asks about
    buffer,              \* workspaceState 'currentPanelChats' as the tail read it
    result,              \* the GitHistoryData returned
    error,               \* the error thrown to the caller, "none" when none
    disk,                \* the file .gait/stashedGaitState2.json of the store
    op,                  \* the store function called last, with its argument
    returned,            \* what the last read of the store returned
    appends,             \* "single" while every chat written so far carried one message
    shown,               \* the hashes of the commits git show was asked for
    idToCommitInfo,      \* Map<string, CommitData> of the two index functions
    document,            \* document.getText().split('\n') of the matcher's call
    diff,                \* the Diff.Change[] of the matcher's call
    ranges,              \* the vscode.Range[] the matcher returned
    currentMessages,     \* decorateActive: the messages its loop goes through
    processed,           \* decorateActive: how many of them the loop has handled
    rangesToPanel,       \* decorateActive: the PanelMatchedRange[] built so far
    disposibleDecorations, \* the decoration set redecorate keeps, 0 for undefined
    decorationsActive,   \* the flag of the same name
    created,             \* how many decoration sets decorateActive has returned
    disposals,           \* how often each decoration set has been disposed
    event                \* the last editor event handled

vars == <<revision, fn, missing, stored, pc, currentMessageIds, currentPanelChatIds,
          currentInlineChatIds, deletedPanelChatIds, deletedMessageIds, repo,
          allCommitsMap, seenMessageIds, status, buffer, result, error,
          disk, op, returned, appends, shown, idToCommitInfo,
          document, diff, ranges, currentMessages, processed, rangesToPanel,
          disposibleDecorations, decorationsActive, created, disposals, event>>

\* The variables of redecorate and of the commands that call it.
decorationVars == <<disposibleDecorations, decorationsActive, created, disposals, event>>

\* The module state of extension.ts when it is loaded: no decoration set, and
\* decorationsActive = true.
NoDecorations ==
    /\ disposibleDecorations = 0
    /\ decorationsActive = TRUE
    /\ created = 0
    /\ disposals = <<>>
    /\ event = "none"

\* The variables of decorateActive and of redecorate.
editorVars == <<currentMessages, processed, rangesToPanel, decorationVars>>

\* decorateActive has not been called.
NoEditor ==
    /\ currentMessages = <<>>
    /\ processed = 0
    /\ rangesToPanel = <<>>
    /\ NoDecorations

\* The variables of the range matcher.
matchVars == <<document, diff, ranges>>

\* The variables of the store and of the matcher, which a history walk leaves alone.
storeVars == <<disk, op, returned, appends, document, diff, ranges, editorVars>>

\* The variables of a history walk and of the matcher, which the store functions
\* leave alone.
walkVars == <<revision, fn, missing, pc, currentMessageIds, currentPanelChatIds,
              currentInlineChatIds, deletedPanelChatIds, deletedMessageIds, repo,
              allCommitsMap, seenMessageIds, status, buffer, result, shown,
              idToCommitInfo, document, diff, ranges, editorVars>>

-----------------------------------------------------------------------------
(* Bounds and universes *)

MaxCommits == 2

MsgIds == {"m1", "m2"}
ChatIds == {"A", "B"}
InlineIds == {"i1"}

Revisions == {"extension", "context"}
Fns == {"getGitHistory", "getGitHistoryThatTouchesFile"}

-----------------------------------------------------------------------------
(* Snapshot values *)

Arr(items) == [isArray |-> TRUE, items |-> items]
NotArr == [isArray |-> FALSE, items |-> {}]

\* A string where an array is expected: new Set(string) holds its characters, and
\* the ids of the model are one character long.
Str(id) == [isArray |-> FALSE, items |-> {id}]

\* A snapshot without the deletedChats field.
NoDeletedChats == [defined |-> FALSE, deletedMessageIDs |-> NotArr, deletedPanelChatIDs |-> NotArr]

Ledger(msgs, chats) ==
    [defined |-> TRUE, deletedMessageIDs |-> Arr(msgs), deletedPanelChatIDs |-> Arr(chats)]

\* customTitle stands for the metadata of the chat record: ai_editor, customTitle,
\* parent_id and created_on.
Chat(id, messages) == [id |-> id, messages |-> messages, customTitle |-> "first"]

Snapshot(panelChats, inlineChats, deletedChats) ==
    [panelChats |-> panelChats,
     inlineChats |-> [isArray |-> TRUE, items |-> inlineChats],
     deletedChats |-> deletedChats]

\* The structure both revisions fall back to when the current snapshot cannot be used.
DefaultStashedState == Snapshot(<<>>, <<>>, Ledger({}, {}))


-----------------------------------------------------------------------------
(* Helpers on sequences *)

Range(s) == {s[i] : i \in DOMAIN s}

\* new Set(value): the elements of an array, the characters of a string, nothing
\* for undefined.
ToSet(arr) == arr.items

\* A variant of the search that finds no chat.
FindChat_None(panelChats, id) == 0

\* Array.prototype.findIndex over chat ids, 0 when no chat has the id.
FindChat(panelChats, id) ==
    IF \E i \in DOMAIN panelChats : panelChats[i].id = id
    THEN CHOOSE i \in DOMAIN panelChats :
            /\ panelChats[i].id = id
            /\ \A j \in DOMAIN panelChats : panelChats[j].id = id => i <= j
    ELSE 0

-----------------------------------------------------------------------------
(* ensureDeletedChats and step 1 *)

\* A variant of ensureDeletedChats that repairs nothing.
ensureDeletedChats_NoRepair(stashedState) == stashedState

\* The three repairs of the ledger: a missing deletedChats and a ledger field that
\* is no array become empty arrays.
ensureDeletedChats(stashedState) ==
    LET dc == IF stashedState.deletedChats.defined
              THEN stashedState.deletedChats
              ELSE Ledger({}, {})
    IN [stashedState EXCEPT !.deletedChats =
           [defined |-> TRUE,
            deletedMessageIDs |-> IF dc.deletedMessageIDs.isArray
                                  THEN dc.deletedMessageIDs ELSE Arr({}),
            deletedPanelChatIDs |-> IF dc.deletedPanelChatIDs.isArray
                                    THEN dc.deletedPanelChatIDs ELSE Arr({})]]

\* The current snapshot as parsed: the default structure replaces a content that
\* cannot be read, does not parse or is no StashedState.
ParseCurrent(content) ==
    IF content.status = "ok" THEN content.snap ELSE DefaultStashedState

\* The ids of the chats of the current snapshot that its ledger does not delete.
ActivePanelChatIds(parsedCurrent, deletedChatSet) ==
    {parsedCurrent.panelChats[i].id : i \in DOMAIN parsedCurrent.panelChats} \ deletedChatSet

\* A variant of the set of active messages that leaves the ledger's messages in.
ActiveMessageIds_IgnoreLedger(parsedCurrent, deletedChatSet, deletedMsgSet) ==
    UNION {Range(parsedCurrent.panelChats[i].messages) :
             i \in {j \in DOMAIN parsedCurrent.panelChats :
                       parsedCurrent.panelChats[j].id \notin deletedChatSet}}

\* The ids of the messages of those chats that its ledger does not delete.
ActiveMessageIds(parsedCurrent, deletedChatSet, deletedMsgSet) ==
    UNION {Range(parsedCurrent.panelChats[i].messages) :
             i \in {j \in DOMAIN parsedCurrent.panelChats :
                       parsedCurrent.panelChats[j].id \notin deletedChatSet}}
    \ deletedMsgSet

-----------------------------------------------------------------------------
(* processCommit *)

\* Variants of the message test that drop one of its two conjuncts.
IncludeMessage_NoSeen(messageId, current, seen) == messageId \in current

IncludeMessage_NoActive(messageId, current, seen) == messageId \notin seen

\* The test of one message: active in the current snapshot and not seen before.
IncludeMessage(messageId, current, seen) ==
    messageId \in current /\ messageId \notin seen

\* A variant of the update of the seen set that forgets the message.
MarkSeen_Forget(seen, messageId) == seen

\* seenMessageIds.add(messageId)
MarkSeen(seen, messageId) == seen \cup {messageId}

\* The loop over the messages of one chat; acc is [messages, seen].
RECURSIVE PushMessages(_, _, _)
PushMessages(messages, current, acc) ==
    IF messages = <<>> THEN acc
    ELSE LET messageId == Head(messages)
         IN PushMessages(Tail(messages), current,
                IF IncludeMessage(messageId, current, acc.seen)
                THEN [messages |-> Append(acc.messages, messageId),
                      seen |-> MarkSeen(acc.seen, messageId)]
                ELSE acc)

\* The loop over the chats of the commit's snapshot; acc is [panelChats, seen].
RECURSIVE ProcessPanelChats(_, _, _, _)
ProcessPanelChats(chats, deletedChatSet, current, acc) ==
    IF chats = <<>> THEN acc
    ELSE LET panelChat == Head(chats)
         IN IF panelChat.id \in deletedChatSet
            THEN ProcessPanelChats(Tail(chats), deletedChatSet, current, acc)
            ELSE LET found == FindChat(acc.panelChats, panelChat.id)
                     shells == IF found = 0
                               THEN Append(acc.panelChats, [panelChat EXCEPT !.messages = <<>>])
                               ELSE acc.panelChats
                     at == IF found = 0 THEN Len(shells) ELSE found
                     pushed == PushMessages(panelChat.messages, current,
                                   [messages |-> shells[at].messages, seen |-> acc.seen])
                 IN ProcessPanelChats(Tail(chats), deletedChatSet, current,
                        [panelChats |-> [shells EXCEPT ![at].messages = pushed.messages],
                         seen |-> pushed.seen])

\* processCommit of src/src/extension.ts: returns the commitData and the seen set
\* it leaves behind.
processCommit(parsedContent, current, seen, commitData) ==
    LET normal == ensureDeletedChats(parsedContent)
        done == ProcessPanelChats(normal.panelChats,
                    ToSet(normal.deletedChats.deletedPanelChatIDs), current,
                    [panelChats |-> commitData.panelChats, seen |-> seen])
    IN [commitData |-> [commitData EXCEPT !.panelChats = done.panelChats],
        seen |-> done.seen]

\* A variant of processCommit of the listing that leaves the inline chats out.
processCommitInline_PanelOnly(parsedContent, current, currentInline, seen, commitData) ==
    processCommit(parsedContent, current, seen, commitData)

\* processCommit of the listing in src/gait_context.md: the inline chats whose id
\* is in currentInlineChatIds are appended first.
processCommitInline(parsedContent, current, currentInline, seen, commitData) ==
    LET inl == IF parsedContent.inlineChats.isArray
               THEN SelectSeq(parsedContent.inlineChats.items,
                              LAMBDA id : id \in currentInline)
               ELSE <<>>
        withInline == [commitData EXCEPT !.inlineChats = commitData.inlineChats \o inl]
    IN processCommit(parsedContent, current, seen, withInline)

-----------------------------------------------------------------------------
(* The loop over the commit log *)

\* commitMessage.startsWith('Delete message with ID') ||
\* commitMessage.startsWith('Delete PanelChat with ID'): kind "delete" stands for
\* a message with either prefix.
IsDeletionCommit(commit) == commit.kind = "delete"

\* Whether the loop of this revision and function begins with the deletion test.
\* getGitHistory of src/src/extension.ts has it; getGitHistory of the listing in
\* src/gait_context.md does not; getGitHistoryThatTouchesFile has it in both.
SkipsDeletionCommits(rev, f) ==
    rev = "extension" \/ f = "getGitHistoryThatTouchesFile"

\* A variant of the changed-paths test that lets every commit through.
ModifiesTargetFile_Any(commit) == TRUE

\* git diff-tree --name-only: the commit is processed only when the query
\* succeeds and lists targetFilePath.
ModifiesTargetFile(commit) == commit.changes = "yes"

\* A variant of the content test that lets every commit through to processCommit.
ContentParses_Always(commit) == TRUE

\* git show <hash>:<filePath>, JSON.parse and isStashedState all succeed.
ContentParses(commit) == commit.content.status = "ok"

\* Whether the loop body reaches git show <hash>:<filePath> for this commit: the
\* deletion test and, in getGitHistoryThatTouchesFile, the changed-paths test come
\* first and end the iteration with continue.
ReadsContent(rev, f, commit) ==
    /\ ~(SkipsDeletionCommits(rev, f) /\ IsDeletionCommit(commit))
    /\ f = "getGitHistoryThatTouchesFile" => ModifiesTargetFile(commit)

\* Whether the loop body reaches processCommit for this commit.
Processed(rev, f, commit) ==
    /\ ReadsContent(rev, f, commit)
    /\ ContentParses(commit)

NewCommitData(commitHash) ==
    [commitHash |-> commitHash, panelChats |-> <<>>, inlineChats |-> <<>>]

\* allCommitsMap.get(commitHash): the position of the entry, 0 when there is none.
MapGet(commitsMap, commitHash) ==
    IF \E i \in DOMAIN commitsMap : commitsMap[i].commitHash = commitHash
    THEN CHOOSE i \in DOMAIN commitsMap : commitsMap[i].commitHash = commitHash
    ELSE 0

\* One iteration of the loop: [map, seen] after the commit with this hash.
\* ids is [messages, panelChats, inlineChats], the sets of step 1.
LoopBody(rev, f, commit, commitHash, ids, commitsMap, seen) ==
    IF ~Processed(rev, f, commit)
    THEN [map |-> commitsMap, seen |-> seen]
    ELSE LET found == MapGet(commitsMap, commitHash)
             map1 == IF found = 0 THEN Append(commitsMap, NewCommitData(commitHash))
                     ELSE commitsMap
             at == IF found = 0 THEN Len(map1) ELSE found
             out == IF rev = "extension"
                    THEN processCommit(commit.content.snap, ids.messages, seen, map1[at])
                    ELSE processCommitInline(commit.content.snap, ids.messages,
                             IF f = "getGitHistory" THEN ids.inlineChats ELSE ids.panelChats,
                             seen, map1[at])
         IN [map |-> [map1 EXCEPT ![at] = out.commitData], seen |-> out.seen]

-----------------------------------------------------------------------------
(* After the loop *)

HasMessages(commit) ==
    \E i \in DOMAIN commit.panelChats : Len(commit.panelChats[i].messages) > 0

\* A variant of the commit filter that keeps every commit.
FilterEmptyCommits_KeepAll(allCommits) == allCommits

\* allCommits.filter(commit => commit.panelChats.some(pc => pc.messages.length > 0))
FilterEmptyCommits(allCommits) == SelectSeq(allCommits, HasMessages)

\* commit.panelChats = commit.panelChats.filter(pc => pc.messages.length > 0)
PruneEmptyChats(allCommits) ==
    [i \in DOMAIN allCommits |->
        [allCommits[i] EXCEPT !.panelChats =
            SelectSeq(@, LAMBDA chat : Len(chat.messages) > 0)]]

\* The commit list returned: src/src/extension.ts filters the commits only, the
\* listing in src/gait_context.md prunes the empty chats first.
ReturnedCommits(rev, commitsMap) ==
    IF rev = "extension" THEN FilterEmptyCommits(commitsMap)
    ELSE FilterEmptyCommits(PruneEmptyChats(commitsMap))

NoData == [present |-> FALSE, panelChats |-> <<>>]
Data(panelChats) == [present |-> TRUE, panelChats |-> panelChats]

\* panelChats.filter(not ledger-deleted).map(keep the messages whose id is in kept)
\*           .filter(pc => pc.messages.length > 0)
AggregateChats(panelChats, deletedChatSet, kept) ==
    LET alive == SelectSeq(panelChats, LAMBDA chat : chat.id \notin deletedChatSet)
        mapped == [i \in DOMAIN alive |->
                      [alive[i] EXCEPT !.messages = SelectSeq(@, LAMBDA m : m \in kept)]]
    IN SelectSeq(mapped, LAMBDA chat : Len(chat.messages) > 0)

\* 'uncommitted' of src/src/extension.ts: the tracked file is read again and its
\* own ledger and currentMessageIds filter it; null when nothing is left.
UncommittedOfFile(content, current) ==
    LET parsed == ensureDeletedChats(ParseCurrent(content))
        chats == AggregateChats(parsed.panelChats,
                     ToSet(parsed.deletedChats.deletedPanelChatIDs),
                     current \ ToSet(parsed.deletedChats.deletedMessageIDs))
    IN IF Len(chats) > 0 THEN Data(chats) ELSE NoData

\* 'added' of the listing in src/gait_context.md: the map callback filters the
\* chat's messages against seenMessageIds and then adds all of them to it, chat by
\* chat; acc is [panelChats, seen].
RECURSIVE AddedMap(_, _, _)
AddedMap(chats, deletedMsgSet, acc) ==
    IF chats = <<>> THEN acc
    ELSE LET chat == Head(chats)
             filteredMessages == SelectSeq(chat.messages,
                 LAMBDA m : m \notin deletedMsgSet /\ m \notin acc.seen)
         IN AddedMap(Tail(chats), deletedMsgSet,
                [panelChats |-> Append(acc.panelChats,
                                       [chat EXCEPT !.messages = filteredMessages]),
                 seen |-> acc.seen \cup Range(chat.messages)])

AddedChats(panelChats, deletedChatSet, deletedMsgSet, seen) ==
    LET alive == SelectSeq(panelChats, LAMBDA chat : chat.id \notin deletedChatSet)
        mapped == AddedMap(alive, deletedMsgSet, [panelChats |-> <<>>, seen |-> seen])
    IN [panelChats |-> SelectSeq(mapped.panelChats, LAMBDA chat : Len(chat.messages) > 0),
        seen |-> mapped.seen]

\* 'uncommitted' of the listing: the chats of workspaceState 'currentPanelChats'
\* filtered by the current ledger and seenMessageIds.
UncommittedOfBuffer(panelChats, deletedChatSet, deletedMsgSet, seen) ==
    AggregateChats(panelChats, deletedChatSet,
                   UNION {Range(panelChats[i].messages) : i \in DOMAIN panelChats}
                       \ (deletedMsgSet \cup seen))

-----------------------------------------------------------------------------
(* The inputs *)

Ok(snap) == [status |-> "ok", snap |-> snap]
NotFound == [status |-> "notfound", snap |-> DefaultStashedState]
Invalid == [status |-> "invalid", snap |-> DefaultStashedState]
Absent == [status |-> "absent", snap |-> DefaultStashedState]

\* A current snapshot that isStashedState rejects for its inlineChats, which is
\* present and no sequence, while its panelChats is well formed.
InvalidInlineChats ==
    [status |-> "invalidInline",
     snap |-> [Snapshot(<<Chat("A", <<"m1", "m2">>)>>, <<>>, Ledger({}, {}))
                  EXCEPT !.inlineChats = [isArray |-> FALSE, items |-> <<>>]]]

\* The snapshots a commit may hold.
OneChat == Snapshot(<<Chat("A", <<"m1">>)>>, <<>>, Ledger({}, {}))
TwoMessages == Snapshot(<<Chat("A", <<"m1", "m2">>)>>, <<>>, Ledger({}, {}))
RepeatedIds ==
    Snapshot(<<Chat("A", <<"m1", "m1">>), Chat("B", <<"m1", "m2">>)>>, <<>>, Ledger({}, {}))
ChatDeleted ==
    Snapshot(<<Chat("A", <<"m1">>), Chat("B", <<"m2">>)>>, <<>>, Ledger({}, {"A"}))
MessageDeleted == Snapshot(<<Chat("A", <<"m1">>)>>, <<>>, Ledger({"m1"}, {}))
RepeatedChat ==
    Snapshot(<<Chat("A", <<"m1">>), Chat("A", <<"m2">>)>>, <<>>, Ledger({}, {}))

\* Snapshots that isStashedState admits though the ledger is missing or is not an
\* array.
NoLedger == Snapshot(<<Chat("A", <<"m1">>)>>, <<>>, NoDeletedChats)
StringLedger ==
    Snapshot(<<Chat("A", <<"m1">>), Chat("B", <<"m2">>)>>, <<>>,
             [defined |-> TRUE, deletedMessageIDs |-> NotArr,
              deletedPanelChatIDs |-> Str("A")])

\* A later record of chat A, with m2 added and the metadata changed.
Retitled ==
    Snapshot(<<[Chat("A", <<"m1", "m2">>) EXCEPT !.customTitle = "later"]>>, <<>>,
             Ledger({}, {}))

\* Snapshots with the inline chat i1.
InlineOne == Snapshot(<<Chat("A", <<"m1">>)>>, <<"i1">>, Ledger({}, {}))
InlineTwo == Snapshot(<<Chat("A", <<"m1", "m2">>)>>, <<"i1">>, Ledger({}, {}))

CommitSnapshots ==
    {OneChat, TwoMessages, RepeatedIds, ChatDeleted, MessageDeleted, RepeatedChat,
     NoLedger, StringLedger, InlineOne, InlineTwo, Retitled}

\* The snapshots of a commit whose content the walk does not read.
UnreadSnapshots == {OneChat, TwoMessages}

\* The snapshots of a commit of getGitHistory whose message has a deletion prefix:
\* src/src/extension.ts passes over it, the listing reads it.
DeletionSnapshots == {OneChat, TwoMessages, MessageDeleted}

\* The content of a commit made before the tracked file was renamed to filePath:
\* the log, asked with --follow, lists the commit, the file held snap under its
\* former path, and git show <hash>:<filePath> finds nothing at filePath.
Renamed(snap) == [status |-> "renamed", snap |-> snap]

CommitContents ==
    {Ok(s) : s \in CommitSnapshots} \cup {NotFound, Invalid, Renamed(OneChat)}

Commit(kind, changes, content) ==
    [kind |-> kind, changes |-> changes, content |-> content]

\* The commits the log of a call may list.  getGitHistory never asks for the
\* changed paths, so its commits carry changes = "yes".
CommitOptions(f) ==
    IF f = "getGitHistory"
    THEN {Commit("content", "yes", c) : c \in CommitContents}
         \cup {Commit("delete", "yes", Ok(s)) : s \in DeletionSnapshots}
    ELSE {Commit("content", "yes", c) : c \in CommitContents}
         \cup {Commit(k[1], k[2], Ok(s)) :
                 k \in {<<"content", "no">>, <<"content", "fail">>,
                        <<"delete", "yes">>, <<"delete", "no">>},
                 s \in UnreadSnapshots}

\* Current snapshots that isStashedState admits though a collection is missing:
\* no deletedChats, no deletedMessageIDs, no inlineChats.
CurrentNoLedger == Snapshot(<<Chat("A", <<"m1", "m2">>)>>, <<>>, NoDeletedChats)
CurrentNoMessageLedger ==
    Snapshot(<<Chat("A", <<"m1">>), Chat("B", <<"m2">>)>>, <<>>,
             [defined |-> TRUE, deletedMessageIDs |-> NotArr,
              deletedPanelChatIDs |-> Arr({"B"})])
CurrentNoInlineChats ==
    [Snapshot(<<Chat("A", <<"m1", "m2">>)>>, <<>>, Ledger({}, {}))
        EXCEPT !.inlineChats = [isArray |-> FALSE, items |-> <<>>]]

\* The current snapshot.
CurrentSnapshots ==
    {TwoMessages,
     Snapshot(<<Chat("A", <<"m1", "m2">>)>>, <<>>, Ledger({"m1"}, {})),
     Snapshot(<<Chat("A", <<"m1">>), Chat("B", <<"m2">>)>>, <<>>, Ledger({}, {"B"})),
     OneChat,
     CurrentNoLedger, CurrentNoMessageLedger, CurrentNoInlineChats, InlineTwo}

CurrentContents ==
    {Ok(s) : s \in CurrentSnapshots} \cup {Invalid, InvalidInlineChats, Absent}

\* What workspaceState 'currentPanelChats' may hold.
Unread == [kind |-> "unread", chats |-> <<>>]
Buffers ==
    {[kind |-> "array", chats |-> <<Chat("A", <<"m1", "m2">>)>>],
     [kind |-> "array", chats |-> <<>>],
     [kind |-> "notArray", chats |-> <<>>],
     [kind |-> "invalidElement", chats |-> <<>>]}

-----------------------------------------------------------------------------
(* The state machine *)

EmptyResult == [commits |-> <<>>, added |-> NoData, uncommitted |-> NoData]

\* new Map<string, CommitData>(): every id is without an entry.  The CommitData
\* with hash 0 stands for "no entry"; commit hashes start at 1.
NoEntries == [id \in MsgIds \cup InlineIds |-> NewCommitData(0)]

\* No store function has been called, nothing has been read.
NoOp == [name |-> "none", chat |-> Chat("", <<>>), id |-> "", snap |-> DefaultStashedState]
NothingReturned == [kind |-> "none", content |-> Absent]

Init ==
    /\ revision \in Revisions
    /\ fn \in Fns
    /\ missing \in (IF fn = "getGitHistory" THEN {"none", "file"}
                    ELSE {"none", "file", "target"})
    /\ stored \in (IF missing = "none" THEN CurrentContents ELSE {Absent})
    /\ pc = "start"
    /\ currentMessageIds = {}
    /\ currentPanelChatIds = {}
    /\ currentInlineChatIds = {}
    /\ deletedPanelChatIds = {}
    /\ deletedMessageIds = {}
    /\ repo = <<>>
    /\ allCommitsMap = <<>>
    /\ seenMessageIds = {}
    /\ status = "unasked"
    /\ buffer = Unread
    /\ result = EmptyResult
    /\ error = "none"
    /\ disk = Absent
    /\ op = NoOp
    /\ returned = NothingReturned
    /\ appends = "single"
    /\ shown = {}
    /\ idToCommitInfo = NoEntries
    /\ document = <<>>
    /\ diff = <<>>
    /\ ranges = <<>>
    /\ NoEditor

Throw(message) ==
    /\ pc' = "failed"
    /\ error' = message

\* The entry check and step 1.
Start ==
    /\ UNCHANGED storeVars
    /\ UNCHANGED <<shown, idToCommitInfo>>
    /\ pc = "start"
    /\ IF missing = "file"
       THEN /\ Throw("File not found")
            /\ UNCHANGED <<currentMessageIds, currentPanelChatIds, currentInlineChatIds,
                           deletedPanelChatIds, deletedMessageIds>>
       ELSE IF missing = "target"
       THEN /\ Throw("Target file not found")
            /\ UNCHANGED <<currentMessageIds, currentPanelChatIds, currentInlineChatIds,
                           deletedPanelChatIds, deletedMessageIds>>
       ELSE LET parsed == ParseCurrent(stored)
                \* getGitHistoryThatTouchesFile of the listing reads the ledger
                \* without the three repairs.
                repaired == IF revision = "context" /\ fn = "getGitHistoryThatTouchesFile"
                            THEN parsed ELSE ensureDeletedChats(parsed)
                chatSet == ToSet(repaired.deletedChats.deletedPanelChatIDs)
                msgSet == ToSet(repaired.deletedChats.deletedMessageIDs)
            IN IF ~repaired.deletedChats.defined
                  \/ (revision = "context" /\ fn = "getGitHistory"
                      /\ ~repaired.inlineChats.isArray)
               THEN /\ Throw("TypeError")
                    /\ UNCHANGED <<currentMessageIds, currentPanelChatIds,
                                   currentInlineChatIds, deletedPanelChatIds,
                                   deletedMessageIds>>
               ELSE /\ deletedPanelChatIds' = chatSet
                    /\ deletedMessageIds' = msgSet
                    /\ currentPanelChatIds' = ActivePanelChatIds(repaired, chatSet)
                    /\ currentMessageIds' = ActiveMessageIds(repaired, chatSet, msgSet)
                    /\ currentInlineChatIds' =
                          IF revision = "context" /\ fn = "getGitHistory"
                          THEN Range(repaired.inlineChats.items) ELSE {}
                    /\ pc' = "log"
                    /\ error' = error
    /\ UNCHANGED <<revision, fn, missing, stored, repo, allCommitsMap, seenMessageIds,
                   status, buffer, result>>

\* Step 2: git log --reverse --follow.
GitLog ==
    /\ UNCHANGED storeVars
    /\ UNCHANGED <<shown, idToCommitInfo>>
    /\ pc = "log"
    /\ \E ok \in BOOLEAN :
          IF ok THEN pc' = "walk" /\ error' = error
          ELSE Throw("Failed to retrieve git log")
    /\ UNCHANGED <<revision, fn, missing, stored, currentMessageIds, currentPanelChatIds,
                   currentInlineChatIds, deletedPanelChatIds, deletedMessageIds, repo,
                   allCommitsMap, seenMessageIds, status, buffer, result>>

Ids == [messages |-> currentMessageIds, panelChats |-> currentPanelChatIds,
        inlineChats |-> currentInlineChatIds]

\* One iteration of the loop over logLines, on the next commit of the log.
WalkCommit ==
    /\ UNCHANGED storeVars
    /\ pc = "walk"
    /\ Len(repo) < MaxCommits
    /\ \E commit \in CommitOptions(fn) :
          LET out == LoopBody(revision, fn, commit, Len(repo) + 1, Ids,
                              allCommitsMap, seenMessageIds)
          IN /\ repo' = Append(repo, commit)
             /\ UNCHANGED idToCommitInfo
             /\ shown' = IF ReadsContent(revision, fn, commit)
                         THEN shown \cup {Len(repo) + 1} ELSE shown
             /\ allCommitsMap' = out.map
             /\ seenMessageIds' = out.seen
    /\ UNCHANGED <<revision, fn, missing, stored, pc, currentMessageIds,
                   currentPanelChatIds, currentInlineChatIds, deletedPanelChatIds,
                   deletedMessageIds, status, buffer, result, error>>

Return(commits, added, uncommitted) ==
    /\ result' = [commits |-> commits, added |-> added, uncommitted |-> uncommitted]
    /\ pc' = "done"
    /\ error' = error

\* A variant of the stored value in which an absent value is not replaced by the
\* default structure.
RawPanelChatsUsable_Strict(content) == content.status = "ok"

\* The value readStashedState(context) hands to the tail of the listing, which
\* uses it unchecked: a stored value that is no StashedState has no panelChats
\* array to filter.
RawPanelChatsUsable(content) == content.status # "invalid"

\* src/src/extension.ts, both functions: the filter, step 3 and the return.
FinishExtension ==
    /\ UNCHANGED storeVars
    /\ UNCHANGED <<shown, idToCommitInfo>>
    /\ pc = "walk"
    /\ revision = "extension"
    /\ \E st \in {"fail", "clean", "dirty"} :
          /\ status' = st
          /\ IF st = "fail"
             THEN Throw("Failed to retrieve git status") /\ result' = result
             ELSE Return(ReturnedCommits(revision, allCommitsMap), NoData,
                         IF st = "dirty"
                         THEN UncommittedOfFile(stored, currentMessageIds)
                         ELSE NoData)
    /\ UNCHANGED <<revision, fn, missing, stored, currentMessageIds, currentPanelChatIds,
                   currentInlineChatIds, deletedPanelChatIds, deletedMessageIds, repo,
                   allCommitsMap, seenMessageIds, buffer>>

\* readStashedState(context): the stored value as it is, the default structure
\* when there is none.
readStashedState(content) ==
    IF content.status = "absent" THEN DefaultStashedState ELSE content.snap

\* The part of the listing's tail that both of its functions share: 'added' from
\* the stored snapshot, then 'uncommitted' from workspaceState 'currentPanelChats'.
AddedAndUncommitted(b) ==
    LET added == AddedChats(readStashedState(stored).panelChats, deletedPanelChatIds,
                            deletedMessageIds, seenMessageIds)
    IN /\ buffer' = b
       /\ IF ~RawPanelChatsUsable(stored)
          THEN /\ Throw("TypeError")
               /\ UNCHANGED <<result, seenMessageIds>>
          ELSE /\ seenMessageIds' = added.seen
               /\ IF b.kind # "array"
                  THEN /\ Throw("Parsed content does not match PanelChat structure.")
                       /\ result' = result
                  ELSE Return(ReturnedCommits(revision, allCommitsMap),
                              Data(added.panelChats),
                              Data(UncommittedOfBuffer(b.chats, deletedPanelChatIds,
                                                       deletedMessageIds, added.seen)))

\* getGitHistory of the listing in src/gait_context.md: the two filters, 'added',
\* 'uncommitted' and the return; git.status() is not asked.
FinishContextHistory ==
    /\ UNCHANGED storeVars
    /\ UNCHANGED <<shown, idToCommitInfo>>
    /\ pc = "walk"
    /\ revision = "context"
    /\ fn = "getGitHistory"
    /\ \E b \in Buffers : AddedAndUncommitted(b)
    /\ UNCHANGED <<revision, fn, missing, stored, currentMessageIds, currentPanelChatIds,
                   currentInlineChatIds, deletedPanelChatIds, deletedMessageIds, repo,
                   allCommitsMap, status>>

\* getGitHistoryThatTouchesFile of the listing: the two filters, git.status() on
\* the target path, and 'added' and 'uncommitted' only when it is modified.
FinishContextTouches ==
    /\ UNCHANGED storeVars
    /\ UNCHANGED <<shown, idToCommitInfo>>
    /\ pc = "walk"
    /\ revision = "context"
    /\ fn = "getGitHistoryThatTouchesFile"
    /\ \E st \in {"fail", "clean", "dirty"} :
          /\ status' = st
          /\ IF st = "fail"
             THEN /\ Throw("Failed to retrieve git status")
                  /\ UNCHANGED <<result, seenMessageIds, buffer>>
             ELSE IF st = "clean"
             THEN /\ Return(ReturnedCommits(revision, allCommitsMap), Data(<<>>), Data(<<>>))
                  /\ UNCHANGED <<seenMessageIds, buffer>>
             ELSE \E b \in Buffers : AddedAndUncommitted(b)
    /\ UNCHANGED <<revision, fn, missing, stored, currentMessageIds, currentPanelChatIds,
                   currentInlineChatIds, deletedPanelChatIds, deletedMessageIds, repo,
                   allCommitsMap>>

-----------------------------------------------------------------------------
(* The two index functions of the listing in src/gait_context.md *)

\* The keys of the map.
Keys(map) == {id \in DOMAIN map : map[id].commitHash # 0}

\* for (const id of ids) idToCommitInfo.set(id, commit)
RECURSIVE SetEach(_, _, _)
SetEach(map, ids, commit) ==
    IF ids = <<>> THEN map
    ELSE SetEach([map EXCEPT ![Head(ids)] = commit], Tail(ids), commit)

\* A variant of the message loop that visits the first panel chat only.
MessageIdsOf_FirstChat(panelChats) ==
    IF panelChats = <<>> THEN <<>> ELSE Head(panelChats).messages

\* The message ids in the order the two inner loops visit them.
RECURSIVE MessageIdsOf(_)
MessageIdsOf(panelChats) ==
    IF panelChats = <<>> THEN <<>>
    ELSE Head(panelChats).messages \o MessageIdsOf(Tail(panelChats))

\* The loop of getIdToCommitInfo over gitHistory.commits.
RECURSIVE IndexMessages(_, _)
IndexMessages(commits, map) ==
    IF commits = <<>> THEN map
    ELSE IndexMessages(Tail(commits),
                       SetEach(map, MessageIdsOf(Head(commits).panelChats), Head(commits)))

\* The loop of getInlineChatIdToCommitInfo over gitHistory.commits.
RECURSIVE IndexInlineChats(_, _)
IndexInlineChats(commits, map) ==
    IF commits = <<>> THEN map
    ELSE IndexInlineChats(Tail(commits),
                          SetEach(map, Head(commits).inlineChats, Head(commits)))

\* getIdToCommitInfo: getGitHistory has returned, the map is built from its commits.
GetIdToCommitInfo ==
    /\ pc = "done"
    /\ revision = "context"
    /\ fn = "getGitHistory"
    /\ error = "none"
    /\ idToCommitInfo' = IndexMessages(result.commits, NoEntries)
    /\ pc' = "getIdToCommitInfo"
    /\ UNCHANGED storeVars
    /\ UNCHANGED <<revision, fn, missing, stored, currentMessageIds, currentPanelChatIds,
                   currentInlineChatIds, deletedPanelChatIds, deletedMessageIds, repo,
                   allCommitsMap, seenMessageIds, status, buffer, result, error, shown>>

\* getInlineChatIdToCommitInfo, likewise.
GetInlineChatIdToCommitInfo ==
    /\ pc = "done"
    /\ revision = "context"
    /\ fn = "getGitHistory"
    /\ error = "none"
    /\ idToCommitInfo' = IndexInlineChats(result.commits, NoEntries)
    /\ pc' = "getInlineChatIdToCommitInfo"
    /\ UNCHANGED storeVars
    /\ UNCHANGED <<revision, fn, missing, stored, currentMessageIds, currentPanelChatIds,
                   currentInlineChatIds, deletedPanelChatIds, deletedMessageIds, repo,
                   allCommitsMap, seenMessageIds, status, buffer, result, error, shown>>

Next ==
    \/ Start
    \/ GitLog
    \/ WalkCommit
    \/ FinishExtension
    \/ FinishContextHistory
    \/ FinishContextTouches
    \/ GetIdToCommitInfo
    \/ GetInlineChatIdToCommitInfo

Spec == Init /\ [][Next]_vars

-----------------------------------------------------------------------------
(* The snapshot store of the listing in src/gait_context.md *)

\* The chats a caller hands to writeChatToStashedState.
NewChats ==
    {Chat("A", <<"m1">>), Chat("A", <<"m2">>), Chat("B", <<"m1">>),
     Chat("A", <<"m1", "m2">>), Chat("A", <<"m1", "m1">>)}

\* A variant of the message filter that appends every message of the new chat.
NewMessages_All(existingChat, newChat) == newChat.messages

\* newChat.messages.filter(message => !existingChat.messages.some(same id))
NewMessages(existingChat, newChat) ==
    SelectSeq(newChat.messages, LAMBDA m : m \notin Range(existingChat.messages))

\* The snapshot writeChatToStashedState writes.
writeChatToStashedState(currentState, newChat) ==
    LET existingChatIndex == FindChat(currentState.panelChats, newChat.id)
    IN IF existingChatIndex # 0
       THEN [currentState EXCEPT !.panelChats[existingChatIndex].messages =
                @ \o NewMessages(currentState.panelChats[existingChatIndex], newChat)]
       ELSE [currentState EXCEPT !.panelChats = Append(@, newChat)]

\* panelChats.findIndex(chat => chat.messages.some(message => message.id === id)),
\* 0 when no chat has the message.
ChatIndexOfMessage(panelChats, message_id) ==
    IF \E i \in DOMAIN panelChats : message_id \in Range(panelChats[i].messages)
    THEN CHOOSE i \in DOMAIN panelChats :
            /\ message_id \in Range(panelChats[i].messages)
            /\ \A j \in DOMAIN panelChats :
                  message_id \in Range(panelChats[j].messages) => i <= j
    ELSE 0

\* A variant of removeMessageFromStashedState that records the id in the ledger as well.
removeMessageFromStashedState_Ledger(currentState, chatIndex, message_id) ==
    [currentState EXCEPT
        !.panelChats[chatIndex].messages = SelectSeq(@, LAMBDA m : m # message_id),
        !.deletedChats.deletedMessageIDs.items = @ \cup {message_id}]

\* The snapshot removeMessageFromStashedState writes; chatIndex is not 0.
removeMessageFromStashedState(currentState, chatIndex, message_id) ==
    [currentState EXCEPT !.panelChats[chatIndex].messages =
        SelectSeq(@, LAMBDA m : m # message_id)]

\* A variant of removePanelChatFromStashedState that leaves the chats as they are.
removePanelChatFromStashedState_Keep(currentState, panel_chat_id) == currentState

\* The snapshot removePanelChatFromStashedState writes.
removePanelChatFromStashedState(currentState, panel_chat_id) ==
    [currentState EXCEPT !.panelChats =
        SelectSeq(@, LAMBDA chat : chat.id # panel_chat_id)]

\* What fs.writeFileSync does to the file: it writes it, fails before it has
\* touched it, or fails after it has truncated it.
WriteOutcomes == {"written", "failed", "torn"}

FileAfter(file, stashedState, outcome) ==
    IF outcome = "written" THEN Ok(stashedState)
    ELSE IF outcome = "failed" THEN file
    ELSE Invalid

\* A variant of writeStashedState that writes the file first and updates
\* workspaceState only when the file was written.
writeStashedState_FileFirst(memory, file, stashedState, outcome) ==
    [memory |-> IF outcome = "written" THEN Ok(stashedState) ELSE memory,
     file |-> FileAfter(file, stashedState, outcome),
     error |-> IF outcome = "written" THEN "none" ELSE "Error writing stashed state"]

\* writeStashedState: workspaceState.update, then writeStashedStateToFile, which
\* throws when the file cannot be written.
writeStashedState(memory, file, stashedState, outcome) ==
    [memory |-> Ok(stashedState),
     file |-> FileAfter(file, stashedState, outcome),
     error |-> IF outcome = "written" THEN "none" ELSE "Error writing stashed state"]

StoreInit ==
    /\ revision = "context"
    /\ fn = "getGitHistory"
    /\ missing = "none"
    /\ stored \in {Absent, Invalid}
    /\ pc = "store"
    /\ currentMessageIds = {}
    /\ currentPanelChatIds = {}
    /\ currentInlineChatIds = {}
    /\ deletedPanelChatIds = {}
    /\ deletedMessageIds = {}
    /\ repo = <<>>
    /\ allCommitsMap = <<>>
    /\ seenMessageIds = {}
    /\ status = "unasked"
    /\ buffer = Unread
    /\ result = EmptyResult
    /\ error = "none"
    /\ disk \in {Absent, Invalid}
    /\ op = NoOp
    /\ returned = NothingReturned
    /\ appends = "single"
    /\ shown = {}
    /\ idToCommitInfo = NoEntries
    /\ document = <<>>
    /\ diff = <<>>
    /\ ranges = <<>>
    /\ NoEditor

\* The call of writeStashedState that ends the three writing functions.
Persist(stashedState) ==
    \E outcome \in WriteOutcomes :
        LET out == writeStashedState(stored, disk, stashedState, outcome)
        IN /\ stored' = out.memory
           /\ disk' = out.file
           /\ error' = out.error

\* A stored value without a panelChats array makes the function raise a TypeError
\* before it writes anything.
RaiseTypeError ==
    /\ error' = "TypeError"
    /\ UNCHANGED <<stored, disk>>

ReadStashedState ==
    /\ pc = "store"
    /\ op' = [NoOp EXCEPT !.name = "readStashedState"]
    /\ returned' = [kind |-> "value",
                    content |-> IF stored.status = "absent"
                                THEN Ok(DefaultStashedState) ELSE stored]
    /\ error' = "none"
    /\ UNCHANGED <<stored, disk, appends>>
    /\ UNCHANGED walkVars

\* A variant of readStashedStateFromFile that substitutes the default snapshot
\* for content it cannot use.
FileReadOutcome_Default(file, ioOk) ==
    IF file.status = "ok" /\ ioOk
    THEN [kind |-> "value", content |-> file]
    ELSE [kind |-> "value", content |-> Ok(DefaultStashedState)]

\* What readStashedStateFromFile hands to its caller: the content of the file, the
\* default snapshot it has just written into a missing file, or the error of its
\* catch block.
FileReadOutcome(file, ioOk) ==
    IF ~ioOk THEN [kind |-> "thrown", content |-> Absent]
    ELSE IF file.status = "absent" THEN [kind |-> "value", content |-> Ok(DefaultStashedState)]
    ELSE IF file.status = "ok" THEN [kind |-> "value", content |-> file]
    ELSE [kind |-> "thrown", content |-> Absent]

ReadStashedStateFromFile ==
    /\ pc = "store"
    /\ \E ioOk \in BOOLEAN :
          /\ returned' = FileReadOutcome(disk, ioOk)
          /\ disk' = IF disk.status = "absent" /\ ioOk THEN Ok(DefaultStashedState) ELSE disk
    /\ op' = [NoOp EXCEPT !.name = "readStashedStateFromFile"]
    /\ error' = IF returned'.kind = "thrown" THEN "Error reading stashed state" ELSE "none"
    /\ UNCHANGED <<stored, appends>>
    /\ UNCHANGED walkVars

WriteChat ==
    /\ pc = "store"
    /\ \E newChat \in NewChats :
          /\ op' = [NoOp EXCEPT !.name = "writeChatToStashedState", !.chat = newChat]
          /\ appends' = IF Len(newChat.messages) = 1 THEN appends ELSE "any"
          /\ IF stored.status = "invalid"
             THEN RaiseTypeError
             ELSE Persist(writeChatToStashedState(readStashedState(stored), newChat))
    /\ returned' = NothingReturned
    /\ UNCHANGED walkVars

RemoveMessage ==
    /\ pc = "store"
    /\ \E message_id \in MsgIds :
          /\ op' = [NoOp EXCEPT !.name = "removeMessageFromStashedState", !.id = message_id]
          /\ IF stored.status = "invalid"
             THEN RaiseTypeError
             ELSE LET currentState == readStashedState(stored)
                      chatIndex == ChatIndexOfMessage(currentState.panelChats, message_id)
                  IN IF chatIndex = 0
                     THEN /\ error' = "none"
                          /\ UNCHANGED <<stored, disk>>
                     ELSE Persist(removeMessageFromStashedState(currentState, chatIndex,
                                                                message_id))
    /\ returned' = NothingReturned
    /\ UNCHANGED appends
    /\ UNCHANGED walkVars

RemovePanelChat ==
    /\ pc = "store"
    /\ \E panel_chat_id \in ChatIds :
          /\ op' = [NoOp EXCEPT !.name = "removePanelChatFromStashedState", !.id = panel_chat_id]
          /\ IF stored.status = "invalid"
             THEN RaiseTypeError
             ELSE Persist(removePanelChatFromStashedState(readStashedState(stored),
                                                          panel_chat_id))
    /\ returned' = NothingReturned
    /\ UNCHANGED appends
    /\ UNCHANGED walkVars

\* The snapshots a caller hands to writeStashedState.
WrittenSnapshots ==
    {DefaultStashedState,
     Snapshot(<<Chat("A", <<"m1", "m2">>), Chat("B", <<"m1">>)>>, <<"i1">>,
              Ledger({"m2"}, {"B"}))}

WriteStashedState ==
    /\ pc = "store"
    /\ \E stashedState \in WrittenSnapshots :
          /\ Persist(stashedState)
          /\ op' = [NoOp EXCEPT !.name = "writeStashedState", !.snap = stashedState]
    /\ returned' = NothingReturned
    /\ UNCHANGED appends
    /\ UNCHANGED walkVars

StoreNext ==
    \/ ReadStashedState
    \/ WriteStashedState
    \/ ReadStashedStateFromFile
    \/ WriteChat
    \/ RemoveMessage
    \/ RemovePanelChat

StoreSpec == StoreInit /\ [][StoreNext]_vars

-----------------------------------------------------------------------------
(* The range matcher of src/src/extension.ts: matchDiffToCurrentFile *)

\* A line of text is its leading and trailing whitespace and the text between
\* them; a blank line has the text "".
Plain(text) == [pad |-> "", text |-> text]
Padded(text) == [pad |-> "  ", text |-> text]

\* line.trim()
Trim(line) == line.text

\* /[a-zA-Z0-9]/.test(text), over the texts of the model.
HasAlphanumeric(text) == text \notin {"", "}"}

\* text.startsWith('import '), over the texts of the model.
StartsWithImport(text) == text = "import z"

isMeaningfulLine(line) == HasAlphanumeric(Trim(line)) /\ ~StartsWithImport(Trim(line))

\* A Diff.Change: its flags and change.value.split('\n').
Change(added, removed, value) == [added |-> added, removed |-> removed, value |-> value]

\* A variant of the added-line set that takes the lines of every fragment.
AddedLinesSet_AllFragments(changes) ==
    {Trim(l) : l \in UNION {Range(changes[i].value) : i \in DOMAIN changes}} \ {""}

\* new Set(diff.filter(change => change.added)
\*             .flatMap(change => change.value.split('\n').map(line => line.trim()))
\*             .filter(line => line.trim().length > 0))
AddedLinesSet(changes) ==
    {Trim(l) : l \in UNION {Range(changes[i].value) :
                              i \in {k \in DOMAIN changes : changes[k].added}}} \ {""}

\* documentLines[n], lines counted from 0 as the code counts them.
LineAt(documentLines, n) == documentLines[n + 1]

\* matchingLineNumbers: the numbers of the lines whose trimmed text is an added
\* line, ascending.
MatchingLineNumbers(documentLines, addedLinesSet) ==
    LET numbers == [k \in 1..Len(documentLines) |-> k - 1]
    IN SelectSeq(numbers, LAMBDA n : Trim(LineAt(documentLines, n)) \in addedLinesSet)

\* A variant of the occurrence counter that takes every line for unique.
lineOccurrences_Once(documentLines, text) == 1

\* lineOccurrences.get(text) for the text of a matching line.
lineOccurrences(documentLines, text) ==
    Cardinality({k \in DOMAIN documentLines : Trim(documentLines[k]) = text})

\* documentLines[line].length, over the lines of the model.
LineLength(line) ==
    (IF line.pad = "" THEN 0 ELSE 2)
    + (CASE line.text = "" -> 0
         [] line.text = "}" -> 1
         [] line.text = "y = 1" -> 5
         [] line.text = "a()" -> 3
         [] OTHER -> 8)

\* A variant of the range that ends at column 0.
LineRange_Empty(documentLines, line) ==
    [startLine |-> line, startCharacter |-> 0, endLine |-> line, endCharacter |-> 0]

\* new vscode.Range(line, 0, line, documentLines[line].length)
LineRange(documentLines, line) ==
    [startLine |-> line, startCharacter |-> 0, endLine |-> line,
     endCharacter |-> LineLength(LineAt(documentLines, line))]

\* The branch for fewer than 5 added lines.
SmallChange(documentLines, addedLinesSet) ==
    LET kept == SelectSeq(MatchingLineNumbers(documentLines, addedLinesSet),
                    LAMBDA n : /\ isMeaningfulLine(LineAt(documentLines, n))
                               /\ lineOccurrences(documentLines,
                                                  Trim(LineAt(documentLines, n))) = 1)
    IN [k \in DOMAIN kept |-> LineRange(documentLines, kept[k])]

\* A variant of the count that leaves out import statements.
CountAlphanumeric_Meaningful(documentLines, start, end) ==
    Cardinality({j \in start..end : isMeaningfulLine(LineAt(documentLines, j))})

\* meaningfulLines: the lines of the run with an alphanumeric character.
CountAlphanumeric(documentLines, start, end) ==
    Cardinality({j \in start..end : HasAlphanumeric(Trim(LineAt(documentLines, j)))})

\* A variant that pushes one range over the whole run.
WholeRun_Merged(documentLines, start, end) ==
    <<[startLine |-> start, startCharacter |-> 0, endLine |-> end,
       endCharacter |-> LineLength(LineAt(documentLines, end))]>>

\* for (let j = start; j <= end; j++) multiLineRanges.push(new vscode.Range(j, ...))
WholeRun(documentLines, start, end) ==
    [k \in 1..(end - start + 1) |-> LineRange(documentLines, start + k - 1)]

\* What the run from start to end adds to multiLineRanges.
RunRanges(documentLines, start, end) ==
    LET meaningfulLines == CountAlphanumeric(documentLines, start, end)
        trimmedLine == Trim(LineAt(documentLines, start))
    IN IF meaningfulLines >= 2 THEN WholeRun(documentLines, start, end)
       ELSE IF meaningfulLines = 1
       THEN IF /\ lineOccurrences(documentLines, trimmedLine) = 1
               /\ isMeaningfulLine(Plain(trimmedLine))
            THEN <<LineRange(documentLines, start)>>
            ELSE <<>>
       ELSE <<>>

\* The loop over matchingLineNumbers of the branch for 5 or more added lines; a
\* start of -1 says that no run is open.
RECURSIVE LargeChange(_, _, _, _, _)
LargeChange(documentLines, matching, i, start, multiLineRanges) ==
    IF i > Len(matching) THEN multiLineRanges
    ELSE LET currentLine == matching[i]
             opened == IF start = -1 THEN currentLine ELSE start
         IN IF i = Len(matching) \/ matching[i + 1] # currentLine + 1
            THEN LargeChange(documentLines, matching, i + 1, -1,
                             multiLineRanges \o RunRanges(documentLines, opened, currentLine))
            ELSE LargeChange(documentLines, matching, i + 1, opened, multiLineRanges)

matchDiffToCurrentFile(documentLines, changes) ==
    LET addedLinesSet == AddedLinesSet(changes)
    IN IF Cardinality(addedLinesSet) = 0 THEN <<>>
       ELSE IF Cardinality(addedLinesSet) < 5
       THEN SmallChange(documentLines, addedLinesSet)
       ELSE LargeChange(documentLines, MatchingLineNumbers(documentLines, addedLinesSet),
                        1, -1, <<>>)

\* The longest document of the model, in lines.
MaxLines == 4

\* The lines a document is made of.
DocLines ==
    {Plain("return x"), Padded("return x"), Plain("y = 1"), Plain("}"), Plain("import z"),
     Plain("")}

Documents == UNION {[1..n -> DocLines] : n \in 1..MaxLines}

\* The added lines of a change, as a list of texts; Fillers are five more added
\* lines that no document holds.
AddedLists ==
    {<<>>, <<"return x">>, <<"return x", "}">>, <<"return x", "y = 1", "}", "import z">>}
Fillers == <<"a()", "b()", "c()", "d()", "e()">>

Reverse(list) == [k \in DOMAIN list |-> list[Len(list) + 1 - k]]

\* The change as one added fragment with the lines as they are.
OneFragment(list) == <<Change(TRUE, FALSE, [k \in DOMAIN list |-> Plain(list[k])])>>

\* The same added lines in reverse order, indented, the last one repeated and
\* followed by a blank line, between a removed and an unchanged fragment.
Fragments(list) ==
    <<Change(FALSE, TRUE, <<Plain("y = 1"), Plain("gone")>>),
      Change(TRUE, FALSE,
             [k \in DOMAIN list |-> Padded(Reverse(list)[k])]
                 \o (IF list = <<>> THEN <<>> ELSE <<Plain(list[1])>>)
                 \o <<Plain("")>>),
      Change(FALSE, FALSE, <<Plain("}")>>)>>

Diffs ==
    UNION {{OneFragment(l \o f), Fragments(l \o f)} :
              l \in AddedLists, f \in {<<>>, Fillers}}

MatchInit ==
    /\ revision = "extension"
    /\ fn = "getGitHistory"
    /\ missing = "none"
    /\ stored = Absent
    /\ pc = "match"
    /\ currentMessageIds = {}
    /\ currentPanelChatIds = {}
    /\ currentInlineChatIds = {}
    /\ deletedPanelChatIds = {}
    /\ deletedMessageIds = {}
    /\ repo = <<>>
    /\ allCommitsMap = <<>>
    /\ seenMessageIds = {}
    /\ status = "unasked"
    /\ buffer = Unread
    /\ result = EmptyResult
    /\ error = "none"
    /\ disk = Absent
    /\ op = NoOp
    /\ returned = NothingReturned
    /\ appends = "single"
    /\ shown = {}
    /\ idToCommitInfo = NoEntries
    /\ document \in Documents
    /\ diff \in Diffs
    /\ ranges = <<>>
    /\ NoEditor

\* One call of matchDiffToCurrentFile.
Match ==
    /\ pc = "match"
    /\ ranges' = matchDiffToCurrentFile(document, diff)
    /\ pc' = "matched"
    /\ UNCHANGED <<revision, fn, missing, stored, currentMessageIds, currentPanelChatIds,
                   currentInlineChatIds, deletedPanelChatIds, deletedMessageIds, repo,
                   allCommitsMap, seenMessageIds, status, buffer, result, error, disk, op,
                   returned, appends, shown, idToCommitInfo, document, diff, editorVars>>

MatchNext == Match

MatchSpec == MatchInit /\ [][MatchNext]_vars

-----------------------------------------------------------------------------
(* Vocabulary of the properties *)

MessagesOfChats(panelChats) == UNION {Range(panelChats[i].messages) : i \in DOMAIN panelChats}

\* The commit's snapshot of the tracked file lists the message in some chat.
Holds(commit, m) ==
    commit.content.status = "ok" /\ m \in MessagesOfChats(commit.content.snap.panelChats)

\* The hashes of the returned CommitData that list the message.
AttributedTo(m) ==
    {result.commits[i].commitHash :
        i \in {j \in DOMAIN result.commits :
                  m \in MessagesOfChats(result.commits[j].panelChats)}}

\* How often the message occurs over all chats of all returned CommitData.
Occurrences(m) ==
    Cardinality(UNION {UNION {{<<i, j, k>> :
                                  k \in {n \in DOMAIN result.commits[i].panelChats[j].messages :
                                            result.commits[i].panelChats[j].messages[n] = m}} :
                              j \in DOMAIN result.commits[i].panelChats} :
                       i \in DOMAIN result.commits})

Min(S) == CHOOSE x \in S : \A y \in S : x <= y

\* The loop replayed over the commits of repo at the given positions, each under
\* its own hash.
RECURSIVE ReplayFrom(_, _)
ReplayFrom(positions, acc) ==
    IF positions = <<>> THEN acc
    ELSE ReplayFrom(Tail(positions),
             LoopBody(revision, fn, repo[Head(positions)], Head(positions), Ids,
                      acc.map, acc.seen))

PositionsWithout(i) == SelectSeq([k \in 1..Len(repo) |-> k], LAMBDA k : k # i)

ReplayWithout(i) == ReplayFrom(PositionsWithout(i), [map |-> <<>>, seen |-> {}])

Unreadable(commit) == commit.content.status \in {"notfound", "invalid"}

-----------------------------------------------------------------------------
(* The properties *)

HoldingCommits(m) == {i \in DOMAIN repo : Holds(repo[i], m)}

\* The message is active in the current snapshot: some chat that the current
\* ledger does not delete lists it, and the current ledger does not delete it.
ActiveInCurrent(m) ==
    LET current == ensureDeletedChats(ParseCurrent(stored))
    IN /\ m \notin ToSet(current.deletedChats.deletedMessageIDs)
       /\ \E i \in DOMAIN current.panelChats :
             /\ current.panelChats[i].id \notin ToSet(current.deletedChats.deletedPanelChatIDs)
             /\ m \in Range(current.panelChats[i].messages)

HoldsUndeleted(commit, m) ==
    /\ commit.content.status = "ok"
    /\ LET snap == ensureDeletedChats(commit.content.snap)
       IN \E i \in DOMAIN snap.panelChats :
             /\ snap.panelChats[i].id \notin ToSet(snap.deletedChats.deletedPanelChatIDs)
             /\ m \in Range(snap.panelChats[i].messages)

\* The commits the walk processes that list the message in an undeleted chat.
EligibleCommits(m) ==
    {i \in DOMAIN repo : Processed(revision, fn, repo[i]) /\ HoldsUndeleted(repo[i], m)}

C2_MessageAtMostOnce ==
    pc = "done" => \A m \in MsgIds : Occurrences(m) <= 1

C2_Witness ==
    /\ pc = "done"
    /\ \E i \in DOMAIN repo :
          /\ Processed(revision, fn, repo[i])
          /\ repo[i].content.snap = RepeatedIds
    /\ Occurrences("m1") = 1
    /\ Occurrences("m2") = 1

\* C3: a message id listed in deletedMessageIDs of the current snapshot appears in
\* no returned CommitData and in neither 'added' nor 'uncommitted'.
C3_LedgerDeletedNowhere ==
    pc = "done" =>
        \A m \in ToSet(ensureDeletedChats(ParseCurrent(stored)).deletedChats.deletedMessageIDs) :
            /\ AttributedTo(m) = {}
            /\ m \notin MessagesOfChats(result.added.panelChats)
            /\ m \notin MessagesOfChats(result.uncommitted.panelChats)

C3_Witness ==
    /\ pc = "done"
    /\ "m1" \in ToSet(ensureDeletedChats(ParseCurrent(stored)).deletedChats.deletedMessageIDs)
    /\ \E i \in DOMAIN repo : Processed(revision, fn, repo[i]) /\ Holds(repo[i], "m1")
    /\ result.commits # <<>>
    /\ \/ revision = "extension" /\ result.uncommitted.present
       \/ revision = "context" /\ buffer.chats # <<>>

\* C4: every message of every returned CommitData is active in the current
\* snapshot; a message that the current snapshot lacks, or that the current ledger
\* deletes itself or through its chat, is in no CommitData.
C4_OnlyActiveMessages ==
    pc = "done" => \A m \in MsgIds : AttributedTo(m) # {} => ActiveInCurrent(m)

C4_Witness ==
    /\ pc = "done"
    /\ result.commits # <<>>
    /\ \E m \in MsgIds :
          /\ ~ActiveInCurrent(m)
          /\ \E i \in DOMAIN repo : Processed(revision, fn, repo[i]) /\ Holds(repo[i], m)

\* C5: no returned CommitData contains a chat whose message list is empty, also
\* when the same commit has another chat with surviving messages.
C5_NoEmptyChat ==
    pc = "done" =>
        \A i \in DOMAIN result.commits :
            \A j \in DOMAIN result.commits[i].panelChats :
                Len(result.commits[i].panelChats[j].messages) > 0

ReturnedHashes == {result.commits[i].commitHash : i \in DOMAIN result.commits}

\* C6: every returned CommitData holds at least one message, and a commit that
\* contributed no message to the walk is not among the returned commits.
C6_NoEmptyCommit ==
    pc = "done" =>
        /\ \A i \in DOMAIN result.commits :
              MessagesOfChats(result.commits[i].panelChats) # {}
        /\ \A i \in DOMAIN allCommitsMap :
              MessagesOfChats(allCommitsMap[i].panelChats) = {}
                  => allCommitsMap[i].commitHash \notin ReturnedHashes

C6_Witness ==
    /\ pc = "done"
    /\ result.commits # <<>>
    /\ \E i \in DOMAIN allCommitsMap :
          /\ MessagesOfChats(allCommitsMap[i].panelChats) = {}
          /\ allCommitsMap[i].commitHash \notin ReturnedHashes

\* C7: a commit whose snapshot cannot be read, parsed or validated is passed over
\* and the walk goes on: the commit leaves seenMessageIds and the per-commit map as
\* they are, and the commit list returned equals the one of the same log without
\* that commit.
C7_SkipAndContinue ==
    pc \in {"walk", "done"} =>
        \A i \in DOMAIN repo :
            Unreadable(repo[i]) =>
                /\ allCommitsMap = ReplayWithout(i).map
                /\ pc = "walk" => seenMessageIds = ReplayWithout(i).seen
                /\ pc = "done" =>
                      result.commits = ReturnedCommits(revision, ReplayWithout(i).map)

C7_Witness ==
    /\ pc = "done"
    /\ Len(repo) = 2
    /\ Unreadable(repo[1])
    /\ ~Unreadable(repo[2])
    /\ result.commits # <<>>

EntryAndLogErrors ==
    {"File not found", "Target file not found", "Failed to retrieve git log"}

C9_DisjointResultSets ==
    pc = "done" =>
        /\ \A m \in MsgIds :
              AttributedTo(m) # {} =>
                  /\ m \notin MessagesOfChats(result.added.panelChats)
                  /\ m \notin MessagesOfChats(result.uncommitted.panelChats)
        /\ MessagesOfChats(result.added.panelChats)
              \cap MessagesOfChats(result.uncommitted.panelChats) = {}

\* The scenario of C10: the current snapshot has chat A with m1 and m2 and a
\* ledger that deletes m1; commit 1 holds chat A with m1, commit 2 records m1 in
\* its ledger.
C10_Scenario ==
    /\ fn = "getGitHistory"
    /\ stored = Ok(Snapshot(<<Chat("A", <<"m1", "m2">>)>>, <<>>, Ledger({"m1"}, {})))
    /\ Len(repo) = 2
    /\ repo[1] = Commit("content", "yes", Ok(OneChat))
    /\ repo[2].content = Ok(MessageDeleted)

\* C10: in that scenario the walk over the two commits returns an empty commit
\* list, and its 'added' holds exactly chat A with the one message m2.
C10_DeletedThenAdded ==
    (pc = "done" /\ C10_Scenario) =>
        /\ result.commits = <<>>
        /\ result.added = Data(<<Chat("A", <<"m2">>)>>)

\* The loop replayed over the commits of a log at the given positions.
RECURSIVE ReplayOver(_, _, _)
ReplayOver(commits, positions, acc) ==
    IF positions = <<>> THEN acc
    ELSE ReplayOver(commits, Tail(positions),
             LoopBody(revision, fn, commits[Head(positions)], Head(positions), Ids,
                      acc.map, acc.seen))

AllPositions == [k \in 1..Len(repo) |-> k]

LacksLedger(snap) ==
    \/ ~snap.deletedChats.defined
    \/ ~snap.deletedChats.deletedMessageIDs.isArray
    \/ ~snap.deletedChats.deletedPanelChatIDs.isArray

\* The same payload with every ledger array that is missing or is no array
\* present and empty.
WithEmptyLedgerArrays(snap) ==
    [snap EXCEPT !.deletedChats =
        [defined |-> TRUE,
         deletedMessageIDs |->
             IF snap.deletedChats.defined /\ snap.deletedChats.deletedMessageIDs.isArray
             THEN snap.deletedChats.deletedMessageIDs ELSE Arr({}),
         deletedPanelChatIDs |->
             IF snap.deletedChats.defined /\ snap.deletedChats.deletedPanelChatIDs.isArray
             THEN snap.deletedChats.deletedPanelChatIDs ELSE Arr({})]]

CurrentLacksCollection ==
    /\ stored.status = "ok"
    /\ LacksLedger(stored.snap) \/ ~stored.snap.inlineChats.isArray

\* C12: getGitHistory and getGitHistoryThatTouchesFile do not raise because the
\* current snapshot lacks deletedChats, one of the two ledger arrays or
\* inlineChats, and they go on with the sets of step 1 that the same snapshot
\* with the missing collection present and empty gives.
C12_CurrentMissingCollections ==
    CurrentLacksCollection =>
        /\ error # "TypeError"
        /\ pc \in {"log", "walk", "done"} =>
              /\ currentMessageIds = {m \in MsgIds : ActiveInCurrent(m)}
              /\ deletedMessageIds =
                    ToSet(WithEmptyLedgerArrays(stored.snap).deletedChats.deletedMessageIDs)
              /\ deletedPanelChatIds =
                    ToSet(WithEmptyLedgerArrays(stored.snap).deletedChats.deletedPanelChatIDs)
              /\ ~stored.snap.inlineChats.isArray => currentInlineChatIds = {}

CurrentInvalid == stored.status \in {"invalid", "invalidInline"}

\* C14: when the current snapshot is corrupt or invalid the walk goes on with the
\* default empty snapshot and does not fail: no message is active, the commit
\* list returned is empty and nothing of the corrupt snapshot is in the result.
C14_InvalidCurrentDegrades ==
    CurrentInvalid =>
        /\ error # "TypeError"
        /\ pc \in {"log", "walk", "done"} => currentMessageIds = {}
        /\ pc = "done" =>
              /\ result.commits = <<>>
              /\ result.added.panelChats = <<>>
              /\ revision = "extension" => ~result.uncommitted.present

-----------------------------------------------------------------------------
(* C13: what the two readers of the store hand to their caller *)

ReadOps == {"readStashedState", "readStashedStateFromFile"}

\* The stored form a reader reads: workspaceState or the file.
SourceOf(name) == IF name = "readStashedState" THEN stored ELSE disk

-----------------------------------------------------------------------------
(* C15: idempotent append *)

\* How many messages of the chat with this id carry the message id, over the
\* stored snapshot.
CountInChat(chatId, message_id) ==
    Cardinality(UNION {{<<i, k>> : k \in {n \in DOMAIN stored.snap.panelChats[i].messages :
                                            /\ stored.snap.panelChats[i].id = chatId
                                            /\ stored.snap.panelChats[i].messages[n] = message_id}} :
                       i \in DOMAIN stored.snap.panelChats})

\* The last call appended one message to a usable stored snapshot, and every append
\* so far carried one message.
SingleAppendDone ==
    /\ op.name = "writeChatToStashedState"
    /\ Len(op.chat.messages) = 1
    /\ appends = "single"
    /\ error # "TypeError"

\* C15: after an append of one message the chat holds exactly one message with that
\* id, and appending the same message to the same chat again leaves the stored
\* snapshot unchanged.
C15_IdempotentAppend ==
    /\ [](SingleAppendDone => CountInChat(op.chat.id, op.chat.messages[1]) = 1)
    /\ [][SingleAppendDone /\ op' = op /\ appends' = "single" => stored' = stored]_vars

\* The same message has been appended to a chat that already held it.
C15_Witness ==
    /\ SingleAppendDone
    /\ op.chat = Chat("A", <<"m2">>)
    /\ stored.snap.panelChats = <<Chat("A", <<"m1", "m2">>)>>
    /\ disk = stored

-----------------------------------------------------------------------------
(* C16: uniqueness of message ids in the stored snapshot *)

\* A chat of the stored snapshot holds a message id at two positions.
TwiceInOneChat ==
    \E i \in DOMAIN stored.snap.panelChats :
        \E k, n \in DOMAIN stored.snap.panelChats[i].messages :
            k # n /\ stored.snap.panelChats[i].messages[k] = stored.snap.panelChats[i].messages[n]

\* Two chats of the stored snapshot hold the same message id.
InTwoChats ==
    \E i, j \in DOMAIN stored.snap.panelChats :
        /\ i # j
        /\ Range(stored.snap.panelChats[i].messages)
              \cap Range(stored.snap.panelChats[j].messages) # {}

\* The stored snapshot is one that appends of one message and deletions build from
\* the empty snapshot.
BuiltBySingleAppends == appends = "single" /\ stored.status # "invalid"

\* C16 as stated: from the empty snapshot, no sequence of appendMessage,
\* deleteMessage and deleteChat makes a message id occur twice, neither inside one
\* chat nor in two chats.
C16_NoMessageTwice == BuiltBySingleAppends => ~TwiceInOneChat /\ ~InTwoChats

\* C16, amended: from the empty snapshot, no sequence of appendMessage,
\* deleteMessage and deleteChat makes a message id occur twice inside one chat; the
\* same id can be held by two different chats.
C16_NoMessageTwiceInChat == BuiltBySingleAppends => ~TwiceInOneChat

\* Message m1 was appended to chat A and to chat B and both hold it.
C16_Witness ==
    /\ BuiltBySingleAppends
    /\ op.name = "writeChatToStashedState"
    /\ stored.snap.panelChats = <<Chat("A", <<"m1">>), Chat("B", <<"m1">>)>>

-----------------------------------------------------------------------------
(* C17: deletions remove the record from the stored snapshot *)

\* The last call was a deletion of this kind and it returned to its caller.
Returned(name) == op.name = name /\ error = "none"

\* The positions of the chats that hold the message.
ChatsHolding(panelChats, message_id) ==
    {i \in DOMAIN panelChats : message_id \in Range(panelChats[i].messages)}

\* C17 as stated: after deleteMessage(id) returns no chat of the current snapshot
\* holds a message with that id, and after deleteChat(id) returns no chat with that
\* id remains.
C17_DeletedIsGone ==
    /\ Returned("removeMessageFromStashedState") =>
          op.id \notin MessagesOfChats(stored.snap.panelChats)
    /\ Returned("removePanelChatFromStashedState") =>
          \A i \in DOMAIN stored.snap.panelChats : stored.snap.panelChats[i].id # op.id

\* C17, amended: after deleteMessage(id) returns, the first chat that held a message
\* with that id holds none, and no chat holds one when a single chat held the id
\* before the call; after deleteChat(id) returns no chat with that id remains. The
\* record is removed from the stored snapshot itself.
C17_DeletedFromFirstChat ==
    /\ [](Returned("removePanelChatFromStashedState") =>
             \A i \in DOMAIN stored.snap.panelChats : stored.snap.panelChats[i].id # op.id)
    /\ [][op'.name = "removeMessageFromStashedState" /\ error' = "none" =>
             LET holding == ChatsHolding(stored.snap.panelChats, op'.id)
             IN /\ \A i \in holding :
                       (\A j \in holding : i <= j) =>
                           op'.id \notin Range(stored'.snap.panelChats[i].messages)
                /\ Cardinality(holding) <= 1 =>
                       op'.id \notin MessagesOfChats(stored'.snap.panelChats)]_vars

\* Message m1 was held by chats A and B; deleteMessage(m1) returned and chat B
\* still holds it.
C17_Witness ==
    /\ Returned("removeMessageFromStashedState")
    /\ op.id = "m1"
    /\ stored.snap.panelChats = <<Chat("A", <<>>), Chat("B", <<"m1">>)>>

-----------------------------------------------------------------------------
(* C18: writeStashedState under a failing write of the file *)

\* C18: every call of writeStashedState puts the snapshot it is given into
\* workspaceState and attempts the write of the file; the call either leaves the file
\* with that snapshot or reports 'Error writing stashed state', and in both cases
\* workspaceState holds the whole new snapshot, which a following readStashedState
\* returns.
C18_MemoryHoldsNewSnapshot ==
    /\ [](op.name = "writeStashedState" =>
             /\ stored = Ok(op.snap)
             /\ error \in {"none", "Error writing stashed state"}
             /\ error = "none" => disk = Ok(op.snap))
    /\ [][op.name = "writeStashedState" /\ op'.name = "readStashedState" =>
             returned' = [kind |-> "value", content |-> Ok(op.snap)]]_vars

\* The write of the file failed and left the file with another content than the
\* snapshot workspaceState now holds.
C18_Witness ==
    /\ op.name = "writeStashedState"
    /\ error = "Error writing stashed state"
    /\ op.snap # DefaultStashedState
    /\ stored = Ok(op.snap)
    /\ disk.status = "ok"
    /\ disk # stored

-----------------------------------------------------------------------------
(* C19: the commits getGitHistoryThatTouchesFile skips before reading *)

\* The hashes of the walked commits that carry a deletion marker or whose changed
\* paths do not hold the target (the query failed or did not list it).
SkippedUnread ==
    {i \in DOMAIN repo : IsDeletionCommit(repo[i]) \/ repo[i].changes # "yes"}

\* C19: in getGitHistoryThatTouchesFile git show is never asked for a commit with a
\* deletion marker, changing the target or not, nor for a commit whose changed paths
\* lack the target, and none of these commits is in the returned list.
C19_SkippedBeforeRead ==
    fn = "getGitHistoryThatTouchesFile" =>
        /\ SkippedUnread \cap shown = {}
        /\ pc = "done" => SkippedUnread \cap ReturnedHashes = {}

\* A call returned after a deletion commit that changes the target and holds an
\* active message was skipped unread, and a later commit was read and returned.
C19_Witness ==
    /\ fn = "getGitHistoryThatTouchesFile"
    /\ pc = "done"
    /\ error = "none"
    /\ \E i \in SkippedUnread :
          /\ IsDeletionCommit(repo[i])
          /\ repo[i].changes = "yes"
          /\ MessagesOfChats(repo[i].content.snap.panelChats) \cap currentMessageIds # {}
          /\ i \notin shown
    /\ shown # {}
    /\ ReturnedHashes # {}

-----------------------------------------------------------------------------
(* C20: attribution across a rename of the tracked file *)

\* The tracked file, under its path of that time, held the message at the commit.
HeldAt(commit, m) ==
    /\ commit.content.status \in {"ok", "renamed"}
    /\ m \in MessagesOfChats(commit.content.snap.panelChats)

\* The commit was made before the rename and is the first whose file held the
\* message.
IntroducedBeforeRename(i, m) ==
    /\ repo[i].content.status = "renamed"
    /\ ~IsDeletionCommit(repo[i])
    /\ HeldAt(repo[i], m)
    /\ \A j \in DOMAIN repo : j < i => ~HeldAt(repo[j], m)

\* C20: getGitHistory attributes an active message that a commit made before the
\* rename of the tracked file introduced to that commit, not to a later commit and
\* not to none.
C20_PreRenameAttribution ==
    (pc = "done" /\ error = "none" /\ fn = "getGitHistory") =>
        \A i \in DOMAIN repo : \A m \in MsgIds :
            (ActiveInCurrent(m) /\ IntroducedBeforeRename(i, m)) => AttributedTo(m) = {i}

-----------------------------------------------------------------------------
(* C21: the message index *)

\* The message ids that occur in some returned CommitData.
ReturnedMessageIds ==
    UNION {MessagesOfChats(result.commits[i].panelChats) : i \in DOMAIN result.commits}

\* The returned CommitData that contain the message.
CommitsContaining(m) ==
    {c \in Range(result.commits) : m \in MessagesOfChats(c.panelChats)}

\* C21: the keys of the map getIdToCommitInfo returns are exactly the message ids
\* that occur in some CommitData getGitHistory returned, and each key is mapped to
\* the one returned CommitData that contains the message.
C21_MessageIndex ==
    pc = "getIdToCommitInfo" =>
        /\ Keys(idToCommitInfo) = ReturnedMessageIds
        /\ \A m \in Keys(idToCommitInfo) : CommitsContaining(m) = {idToCommitInfo[m]}

\* The returned commit holds m1 in one chat and m2 in a second chat, and the map
\* sends both messages to it.
C21_Witness ==
    /\ pc = "getIdToCommitInfo"
    /\ Keys(idToCommitInfo) = {"m1", "m2"}
    /\ \E c \in Range(result.commits) :
          /\ Len(c.panelChats) = 2
          /\ idToCommitInfo["m1"] = c
          /\ idToCommitInfo["m2"] = c
          /\ "m2" \notin Range(c.panelChats[1].messages)

-----------------------------------------------------------------------------
(* C22, C23: inline chats in the returned commits and in their index *)

\* The commits of the log whose snapshot contains the inline chat.
InlineHolders(id) ==
    {i \in DOMAIN repo : /\ repo[i].content.status = "ok"
                         /\ id \in Range(repo[i].content.snap.inlineChats.items)}

\* C22: getInlineChatIdToCommitInfo maps every inline chat id of its map to the
\* earliest commit of the walk whose snapshot contains the inline chat, also when
\* later commits contain it as well.
C22_InlineIndexEarliest ==
    pc = "getInlineChatIdToCommitInfo" =>
        \A id \in Keys(idToCommitInfo) :
            idToCommitInfo[id].commitHash = Min(InlineHolders(id))

\* How often the inline chat is listed over all returned CommitData.
InlineOccurrences(id) ==
    Cardinality(UNION {{<<i, k>> : k \in {n \in DOMAIN result.commits[i].inlineChats :
                                            result.commits[i].inlineChats[n] = id}} :
                       i \in DOMAIN result.commits})

\* C23: an inline chat id is listed in the inlineChats of one returned CommitData
\* at most, the earliest commit whose snapshot contains it; a later commit that
\* retains the inline chat does not list it again.
C23_InlineChatAtMostOnce ==
    (pc = "done" /\ revision = "context") =>
        \A id \in InlineIds :
            /\ InlineOccurrences(id) <= 1
            /\ \A i \in DOMAIN result.commits :
                  id \in Range(result.commits[i].inlineChats) =>
                      result.commits[i].commitHash = Min(InlineHolders(id))

-----------------------------------------------------------------------------
(* C24..C28: the range matcher *)

\* The line numbers the returned ranges cover.
Covered == UNION {ranges[k].startLine..ranges[k].endLine : k \in DOMAIN ranges}

LineNumbers == 0..(Len(document) - 1)

TextAt(n) == Trim(LineAt(document, n))

\* How often the text is the trimmed text of a line of the document.
TimesInFile(text) == Cardinality({n \in LineNumbers : TextAt(n) = text})

\* The distinct non-blank trimmed added lines of a change.
DistinctAddedOf(changes) ==
    {Trim(l) : l \in UNION {Range(changes[i].value) :
                              i \in {k \in DOMAIN changes : changes[k].added}}} \ {""}

DistinctAdded == DistinctAddedOf(diff)

\* C24: with 1 to 4 distinct added lines the matcher returns exactly the lines of
\* the file whose trimmed text is an added line, has an alphanumeric character,
\* does not start with 'import ' and is the trimmed text of no other line; a line
\* of the change that occurs twice in the file is returned at neither occurrence.
C24_SmallChangeLines ==
    (pc = "matched" /\ Cardinality(DistinctAdded) \in 1..4) =>
        Covered = {n \in LineNumbers : /\ TextAt(n) \in DistinctAdded
                                       /\ HasAlphanumeric(TextAt(n))
                                       /\ ~StartsWithImport(TextAt(n))
                                       /\ TimesInFile(TextAt(n)) = 1}

\* Three added lines and the import are in the file; 'return x' occurs twice, once
\* indented, and only 'y = 1' is returned.
C24_Witness ==
    /\ pc = "matched"
    /\ Cardinality(DistinctAdded) = 4
    /\ document = <<Plain("return x"), Plain("y = 1"), Padded("return x"), Plain("import z")>>
    /\ Covered = {1}

\* The line is one whose trimmed text is an added line.
Matches(n) == n \in LineNumbers /\ TextAt(n) \in DistinctAdded

\* The maximal runs of consecutive matching lines, as pairs of first and last line.
MaximalRuns ==
    {r \in LineNumbers \X LineNumbers :
        /\ r[1] <= r[2]
        /\ \A n \in r[1]..r[2] : Matches(n)
        /\ ~Matches(r[1] - 1)
        /\ ~Matches(r[2] + 1)}

\* The lines of the run that hold an alphanumeric character.
AlphanumericLines(r) == {n \in r[1]..r[2] : HasAlphanumeric(TextAt(n))}

\* C25: with 5 or more distinct added lines, every line of a maximal run of
\* matching lines that holds at least 2 lines with an alphanumeric character is
\* covered by the result, lines of punctuation and lines that occur elsewhere in
\* the file included.
C25_RunAcceptedWhole ==
    (pc = "matched" /\ Cardinality(DistinctAdded) >= 5) =>
        \A r \in MaximalRuns :
            Cardinality(AlphanumericLines(r)) >= 2 => r[1]..r[2] \subseteq Covered

\* A run of 'return x', '}' and 'return x' again is covered as a whole.
C25_Witness ==
    /\ pc = "matched"
    /\ Cardinality(DistinctAdded) >= 5
    /\ document = <<Plain("return x"), Plain("}"), Padded("return x"), Plain("")>>
    /\ MaximalRuns = {<<0, 2>>}
    /\ Covered = {0, 1, 2}

\* C26: with 5 or more distinct added lines, a maximal run with exactly one line
\* that holds an alphanumeric character contributes to the result if and only if
\* that line occurs once in the file and is no import statement, wherever it sits in
\* the run; a run without such a line contributes nothing.
C26_SingleMeaningfulLine ==
    (pc = "matched" /\ Cardinality(DistinctAdded) >= 5) =>
        \A r \in MaximalRuns :
            /\ Cardinality(AlphanumericLines(r)) = 1 =>
                  ((r[1]..r[2] \cap Covered # {}) <=>
                      \A n \in AlphanumericLines(r) :
                          TimesInFile(TextAt(n)) = 1 /\ ~StartsWithImport(TextAt(n)))
            /\ AlphanumericLines(r) = {} => r[1]..r[2] \cap Covered = {}

C28_DependsOnAddedSetOnly ==
    pc = "matched" =>
        /\ \A other \in Diffs :
              DistinctAddedOf(other) = DistinctAddedOf(diff) =>
                  matchDiffToCurrentFile(document, other) = ranges
        /\ DistinctAddedOf(diff) = {} => ranges = <<>>

\* The change came as a removed, an added and an unchanged fragment; the removed
\* line 'y = 1' is in the file and is not returned, the added 'return x' is.
C28_Witness ==
    /\ pc = "matched"
    /\ Len(diff) = 3
    /\ DistinctAddedOf(diff) = {"return x", "}"}
    /\ document = <<Plain("y = 1"), Padded("return x"), Plain("}")>>
    /\ ranges = <<LineRange(document, 1)>>

-----------------------------------------------------------------------------
(* C29, C30: messages of commits the walk passes over *)

\* The commits getGitHistoryThatTouchesFile passes over for their deletion marker
\* or because they do not change the target path.
SkippedByFilter ==
    {i \in DOMAIN repo : IsDeletionCommit(repo[i]) \/ repo[i].changes = "no"}

\* C29: in getGitHistoryThatTouchesFile a message that first appears in the tracked
\* file at a commit the filter passes over is in the CommitData of no later commit:
\* a returned CommitData holds only messages that the tracked file held at no
\* earlier commit of the log.
C29_SkippedCommitKeepsItsMessages ==
    (pc = "done" /\ error = "none" /\ fn = "getGitHistoryThatTouchesFile") =>
        \A i \in SkippedByFilter : \A m \in MsgIds :
            (HeldAt(repo[i], m) /\ \A j \in DOMAIN repo : j < i => ~HeldAt(repo[j], m))
                => \A j \in AttributedTo(m) : j <= i

\* The messages the result surfaces as 'added' or 'uncommitted'.
Surfaced ==
    MessagesOfChats(result.added.panelChats) \cup MessagesOfChats(result.uncommitted.panelChats)

\* C30: a message that the tracked file holds at some commit of the log is surfaced
\* neither as 'added' nor as 'uncommitted' by a history walk.
C30_CommittedNeverSurfaced ==
    (pc = "done" /\ error = "none") =>
        \A m \in MsgIds : (\E i \in DOMAIN repo : HeldAt(repo[i], m)) => m \notin Surfaced

-----------------------------------------------------------------------------
(* The two walks on one log *)

\* The ledger step 1 of function f works with: getGitHistoryThatTouchesFile of
\* the listing reads it without the three repairs.
EntryLedger(rev, f) ==
    IF rev = "context" /\ f = "getGitHistoryThatTouchesFile"
    THEN ParseCurrent(stored) ELSE ensureDeletedChats(ParseCurrent(stored))

\* Whether step 1 of function f completes on the current snapshot.
EntryCompletes(rev, f) ==
    /\ EntryLedger(rev, f).deletedChats.defined
    /\ (rev = "context" /\ f = "getGitHistory") => EntryLedger(rev, f).inlineChats.isArray

\* The id sets step 1 of function f draws from the current snapshot.
EntryIds(rev, f) ==
    LET repaired == EntryLedger(rev, f)
        chatSet == ToSet(repaired.deletedChats.deletedPanelChatIDs)
        msgSet == ToSet(repaired.deletedChats.deletedMessageIDs)
    IN [messages |-> ActiveMessageIds(repaired, chatSet, msgSet),
        panelChats |-> ActivePanelChatIds(repaired, chatSet),
        inlineChats |-> IF rev = "context" /\ f = "getGitHistory"
                        THEN Range(repaired.inlineChats.items) ELSE {}]

\* The loop of function f replayed over the commits of repo from position k on.
RECURSIVE ReplayAs(_, _, _, _)
ReplayAs(rev, f, k, acc) ==
    IF k > Len(repo) THEN acc
    ELSE ReplayAs(rev, f, k + 1,
             LoopBody(rev, f, repo[k], k, EntryIds(rev, f), acc.map, acc.seen))

\* The commit list function f returns on the log and current snapshot of the state.
CommitListOf(rev, f) ==
    ReturnedCommits(rev, ReplayAs(rev, f, 1, [map |-> <<>>, seen |-> {}]).map)

\* Every commit of the log changes the target path and none has a message with a
\* deletion prefix.
EveryCommitTouchesTarget ==
    \A i \in DOMAIN repo : ModifiesTargetFile(repo[i]) /\ ~IsDeletionCommit(repo[i])

\* C31: when every commit of the log changes the target path and no commit
\* message begins with a deletion prefix, getGitHistoryThatTouchesFile returns the
\* commit list getGitHistory returns on the same tracked file and current
\* snapshot: the same commits in the same order with the same chats, messages and
\* inline chats.
C31_TouchesFileEqualsHistory ==
    (/\ pc = "done" /\ error = "none"
     /\ fn = "getGitHistoryThatTouchesFile"
     /\ EntryCompletes(revision, "getGitHistory")
     /\ EveryCommitTouchesTarget) =>
        result.commits = CommitListOf(revision, "getGitHistory")

-----------------------------------------------------------------------------
(* C32: inline chats of the current snapshot in the returned commits *)

\* The returned CommitData of the commit at position i of the log, as a set.
ReturnedFor(i) ==
    {result.commits[k] : k \in {n \in DOMAIN result.commits :
                                   result.commits[n].commitHash = i}}

\* The inline chats the returned commits list.
ReturnedInlineChats ==
    UNION {Range(result.commits[k].inlineChats) : k \in DOMAIN result.commits}

\* getGitHistory of the listing has returned, or one of the index functions has
\* run on what it returned.
HistoryReturned ==
    /\ pc \in {"done", "getIdToCommitInfo", "getInlineChatIdToCommitInfo"}
    /\ revision = "context"
    /\ fn = "getGitHistory"
    /\ error = "none"

-----------------------------------------------------------------------------
(* decorateActive: the loop over the messages *)

PanelMatchedRange(startLine, endLine, message_id) ==
    [range |-> [startLine |-> startLine, endLine |-> endLine], message_id |-> message_id]

\* A variant of the test that takes no line for claimed.
lineInRangesToPanel_Never(matched, line) == FALSE

\* rangesToPanel.some(range => range.range.start.line <= line && range.range.end.line >= line)
lineInRangesToPanel(matched, line) ==
    \E k \in DOMAIN matched :
        matched[k].range.startLine <= line /\ matched[k].range.endLine >= line

\* The for loop over the lines i of one range and the addRange after it.
RECURSIVE SplitRange(_, _, _, _, _, _)
SplitRange(matched, range, i, currentStart, currentEnd, message_id) ==
    IF i > range.endLine
    THEN IF currentStart <= range.endLine
         THEN Append(matched, PanelMatchedRange(currentStart, currentEnd, message_id))
         ELSE matched
    ELSE IF lineInRangesToPanel(matched, i)
    THEN SplitRange(IF currentStart # currentEnd
                    THEN Append(matched,
                                PanelMatchedRange(currentStart, currentEnd, message_id))
                    ELSE matched,
                    range, i + 1, i + 1, i + 1, message_id)
    ELSE SplitRange(matched, range, i + 1, currentStart, i, message_id)

\* currentRanges.forEach(range => ...)
RECURSIVE ClaimRanges(_, _, _)
ClaimRanges(matched, currentRanges, message_id) ==
    IF currentRanges = <<>> THEN matched
    ELSE ClaimRanges(SplitRange(matched, Head(currentRanges), Head(currentRanges).startLine,
                                Head(currentRanges).startLine,
                                Head(currentRanges).startLine, message_id),
                     Tail(currentRanges), message_id)

\* matchDiffToCurrentFile(editor.document, [{value: code, added: true}])
RangesOfCode(documentLines, code) ==
    matchDiffToCurrentFile(documentLines, OneFragment(code))

\* for (const code of codeBlocks)
RECURSIVE ClaimCodeBlocks(_, _, _, _)
ClaimCodeBlocks(matched, documentLines, codeBlocks, message_id) ==
    IF codeBlocks = <<>> THEN matched
    ELSE ClaimCodeBlocks(ClaimRanges(matched, RangesOfCode(documentLines, Head(codeBlocks)),
                                     message_id),
                         documentLines, Tail(codeBlocks), message_id)

\* The longest document and the most messages of a call of decorateActive.
MaxEditorLines == 3
MaxMessages == 2

EditorLines == {Plain("return x"), Plain("y = 1"), Plain("a()"), Plain("}")}

EditorDocuments == UNION {[1..n -> EditorLines] : n \in 1..MaxEditorLines}

\* The code blocks of a message: one short block, two blocks that share a line,
\* and a block of five lines, which takes the other branch of the matcher.
CodeBlocks ==
    {<<<<"return x">>>>,
     <<<<"y = 1", "a()">>>>,
     <<<<"return x", "y = 1">>, <<"y = 1", "a()">>>>,
     <<<<"return x", "y = 1", "a()", "b()", "c()">>>>}

\* A message of currentMessages: elsewhere stands for a kv_store whose file_paths
\* does not include the file of the editor.
MessageEntries(id) ==
    {[id |-> id, codeBlocks |-> blocks, elsewhere |-> FALSE] : blocks \in CodeBlocks}
    \cup {[id |-> id, codeBlocks |-> <<<<"return x">>>>, elsewhere |-> TRUE]}

\* currentMessages holds every message id once; the id of a message is its place.
CurrentMessageLists ==
    UNION {{list \in [1..n -> UNION {MessageEntries(id) : id \in 1..n}] :
               \A k \in 1..n : list[k].id = k} : n \in 1..MaxMessages}

DecorateInit ==
    /\ revision = "extension"
    /\ fn = "getGitHistory"
    /\ missing = "none"
    /\ stored = Absent
    /\ pc = "decorate"
    /\ currentMessageIds = {}
    /\ currentPanelChatIds = {}
    /\ currentInlineChatIds = {}
    /\ deletedPanelChatIds = {}
    /\ deletedMessageIds = {}
    /\ repo = <<>>
    /\ allCommitsMap = <<>>
    /\ seenMessageIds = {}
    /\ status = "unasked"
    /\ buffer = Unread
    /\ result = EmptyResult
    /\ error = "none"
    /\ disk = Absent
    /\ op = NoOp
    /\ returned = NothingReturned
    /\ appends = "single"
    /\ shown = {}
    /\ idToCommitInfo = NoEntries
    /\ document \in EditorDocuments
    /\ diff = <<>>
    /\ ranges = <<>>
    /\ currentMessages \in CurrentMessageLists
    /\ processed = 0
    /\ rangesToPanel = <<>>
    /\ NoDecorations

\* One iteration of for (const {message, panelChat} of currentMessages).
DecorateMessage ==
    /\ pc = "decorate"
    /\ processed < Len(currentMessages)
    /\ LET message == currentMessages[processed + 1]
       IN rangesToPanel' =
              IF message.elsewhere THEN rangesToPanel
              ELSE ClaimCodeBlocks(rangesToPanel, document, message.codeBlocks, message.id)
    /\ processed' = processed + 1
    /\ UNCHANGED <<revision, fn, missing, stored, pc, currentMessageIds, currentPanelChatIds,
                   currentInlineChatIds, deletedPanelChatIds, deletedMessageIds, repo,
                   allCommitsMap, seenMessageIds, status, buffer, result, error, disk, op,
                   returned, appends, shown, idToCommitInfo, document, diff, ranges,
                   currentMessages, decorationVars>>

DecorateNext == DecorateMessage

DecorateSpec == DecorateInit /\ [][DecorateNext]_vars

-----------------------------------------------------------------------------
(* C33: a line of the file belongs to the first message that matched it *)

LinesOf(range) == {line \in 0..(MaxEditorLines + 1) : range.startLine <= line /\ line <= range.endLine}

\* The lines the code blocks of the k-th message match in the document.
MatchedBy(k) ==
    IF currentMessages[k].elsewhere THEN {}
    ELSE UNION {UNION {LinesOf(RangesOfCode(document, currentMessages[k].codeBlocks[b])[r]) :
                         r \in DOMAIN RangesOfCode(document, currentMessages[k].codeBlocks[b])} :
                  b \in DOMAIN currentMessages[k].codeBlocks}

\* The entries of rangesToPanel that cover the line.
EntriesCovering(line) ==
    {e \in DOMAIN rangesToPanel : line \in LinesOf(rangesToPanel[e].range)}

\* The lines the entries of the message with this id cover.
ClaimedBy(id) ==
    UNION {LinesOf(rangesToPanel[e].range) :
             e \in {n \in DOMAIN rangesToPanel : rangesToPanel[n].message_id = id}}

\* C33: no line of the file is covered by two entries of rangesToPanel, and every
\* message handled so far holds exactly the lines its code blocks match that no
\* message before it matched: a line matched by several messages belongs to the
\* first of them in processing order.
C33_FirstClaimWins ==
    pc = "decorate" =>
        /\ \A line \in 0..MaxEditorLines : Cardinality(EntriesCovering(line)) <= 1
        /\ \A k \in 1..processed :
              ClaimedBy(currentMessages[k].id) =
                  MatchedBy(k) \ UNION {MatchedBy(j) : j \in 1..(k - 1)}

\* Both messages matched a line, the first holds it, and the second holds another
\* line.
C33_Witness ==
    /\ pc = "decorate"
    /\ processed = 2
    /\ MatchedBy(1) \cap MatchedBy(2) # {}
    /\ ClaimedBy(2) # {}
    /\ MatchedBy(1) \cap MatchedBy(2) \subseteq ClaimedBy(1)

-----------------------------------------------------------------------------
(* C34: the walk applies the commits in the order of the log *)

\* The active messages that a commit processed so far lists in an undeleted chat.
SeenSoFar ==
    {m \in currentMessageIds :
        \E i \in DOMAIN repo : Processed(revision, fn, repo[i]) /\ HoldsUndeleted(repo[i], m)}

\* The messages the walk has placed in the CommitData of the commit with this hash.
PlacedAt(commitsMap, commitHash) ==
    UNION {MessagesOfChats(commitsMap[k].panelChats) :
             k \in {n \in DOMAIN commitsMap : commitsMap[n].commitHash = commitHash}}

\* The returned commits are commits of the log, oldest first, each hash once.
ReturnedInLogOrder ==
    /\ \A k \in DOMAIN result.commits : result.commits[k].commitHash \in DOMAIN repo
    /\ \A k, n \in DOMAIN result.commits :
          k < n => result.commits[k].commitHash < result.commits[n].commitHash

\* C34: the returned commit list is a subsequence of the log, oldest first, with
\* every hash at most once, and seenMessageIds is updated in log order: when the
\* content of the next commit is examined, seenMessageIds holds the messages of
\* all commits before it, the commit receives none of them, and what it receives
\* is added to seenMessageIds before the commit after it is examined.
C34_AppliedInLogOrder ==
    /\ []((pc = "done" /\ error = "none") => ReturnedInLogOrder)
    /\ [](pc = "walk" => seenMessageIds = SeenSoFar)
    /\ [][(pc = "walk" /\ repo' # repo) =>
             /\ PlacedAt(allCommitsMap', Len(repo')) \cap seenMessageIds = {}
             /\ seenMessageIds' = seenMessageIds \cup PlacedAt(allCommitsMap', Len(repo'))
             /\ \A k \in DOMAIN allCommitsMap : allCommitsMap'[k] = allCommitsMap[k]]_vars

\* Two commits are returned in log order; the second lists m1 as well and
\* received m2 only.
C34_Witness ==
    /\ pc = "done"
    /\ error = "none"
    /\ Len(result.commits) = 2
    /\ AttributedTo("m1") = {1}
    /\ AttributedTo("m2") = {2}
    /\ Holds(repo[2], "m1")

-----------------------------------------------------------------------------
(* C35: the chats of a returned CommitData *)

\* The first record with this chat id in the snapshot of the commit at position i.
FirstRecord(i, id) ==
    LET chats == repo[i].content.snap.panelChats
    IN chats[Min({k \in DOMAIN chats : chats[k].id = id})]

\* The messages the snapshot of the commit at position i lists under this chat id.
ListedUnder(i, id) ==
    LET chats == repo[i].content.snap.panelChats
    IN UNION {Range(chats[k].messages) : k \in {n \in DOMAIN chats : chats[n].id = id}}

\* C35: in a returned CommitData no two chats share an id, also when the snapshot
\* of the commit lists a chat id twice; each of its chats carries the metadata of
\* that commit's record of the chat and holds only messages that the commit lists
\* under the chat id and that no other returned CommitData holds, so a chat whose
\* messages came in at two commits is in both CommitData with the messages first
\* seen at each.
C35_ChatsOfCommitData ==
    (pc = "done" /\ error = "none") =>
        \A k \in DOMAIN result.commits :
            LET c == result.commits[k]
            IN /\ \A i, j \in DOMAIN c.panelChats :
                     c.panelChats[i].id = c.panelChats[j].id => i = j
               /\ \A i \in DOMAIN c.panelChats :
                     /\ c.panelChats[i].customTitle =
                            FirstRecord(c.commitHash, c.panelChats[i].id).customTitle
                     /\ \A m \in Range(c.panelChats[i].messages) :
                           /\ m \in ListedUnder(c.commitHash, c.panelChats[i].id)
                           /\ AttributedTo(m) = {c.commitHash}

\* Chat A is returned at commit 1 with m1 and the metadata of that commit, and at
\* commit 2, whose record lists m1 and m2 under changed metadata, with m2 alone and
\* the changed metadata.
C35_Witness ==
    /\ pc = "done"
    /\ error = "none"
    /\ Len(result.commits) = 2
    /\ result.commits[1].panelChats = <<Chat("A", <<"m1">>)>>
    /\ result.commits[2].panelChats = <<[Chat("A", <<"m2">>) EXCEPT !.customTitle = "later"]>>

-----------------------------------------------------------------------------
(* The Snapshot Store written while getGitHistory of the listing is suspended *)

\* getGitHistory awaits git log or git show, and no store function has run during
\* this call yet.
AtSuspensionPoint ==
    /\ pc \in {"log", "walk"}
    /\ op = NoOp
    /\ stored.status # "invalid"

\* A store function runs to its end while the walk is suspended: workspaceState
\* and the file receive the new snapshot, the variables of the walk stay.
WrittenDuringWalk(stashedState) ==
    LET out == writeStashedState(stored, disk, stashedState, "written")
    IN /\ stored' = out.memory
       /\ disk' = out.file
       /\ UNCHANGED <<revision, fn, missing, pc, currentMessageIds, currentPanelChatIds,
                      currentInlineChatIds, deletedPanelChatIds, deletedMessageIds, repo,
                      allCommitsMap, seenMessageIds, status, buffer, result, error,
                      returned, appends, shown, idToCommitInfo, document, diff, ranges,
                      editorVars>>

AppendDuringWalk ==
    /\ AtSuspensionPoint
    /\ \E newChat \in NewChats :
          /\ op' = [NoOp EXCEPT !.name = "writeChatToStashedState", !.chat = newChat]
          /\ WrittenDuringWalk(writeChatToStashedState(readStashedState(stored), newChat))

DeleteMessageDuringWalk ==
    /\ AtSuspensionPoint
    /\ \E message_id \in MsgIds :
          LET currentState == readStashedState(stored)
              chatIndex == ChatIndexOfMessage(currentState.panelChats, message_id)
          IN /\ chatIndex # 0
             /\ op' = [NoOp EXCEPT !.name = "removeMessageFromStashedState",
                                   !.id = message_id]
             /\ WrittenDuringWalk(removeMessageFromStashedState(currentState, chatIndex,
                                                                message_id))

DeleteChatDuringWalk ==
    /\ AtSuspensionPoint
    /\ \E panel_chat_id \in ChatIds :
          /\ op' = [NoOp EXCEPT !.name = "removePanelChatFromStashedState",
                                !.id = panel_chat_id]
          /\ WrittenDuringWalk(removePanelChatFromStashedState(readStashedState(stored),
                                                               panel_chat_id))

InterleavedInit ==
    /\ revision = "context"
    /\ fn = "getGitHistory"
    /\ missing = "none"
    /\ stored \in {Ok(OneChat), Ok(TwoMessages), Absent}
    /\ pc = "start"
    /\ currentMessageIds = {}
    /\ currentPanelChatIds = {}
    /\ currentInlineChatIds = {}
    /\ deletedPanelChatIds = {}
    /\ deletedMessageIds = {}
    /\ repo = <<>>
    /\ allCommitsMap = <<>>
    /\ seenMessageIds = {}
    /\ status = "unasked"
    /\ buffer = Unread
    /\ result = EmptyResult
    /\ error = "none"
    /\ disk = stored
    /\ op = NoOp
    /\ returned = NothingReturned
    /\ appends = "single"
    /\ shown = {}
    /\ idToCommitInfo = NoEntries
    /\ document = <<>>
    /\ diff = <<>>
    /\ ranges = <<>>
    /\ NoEditor

InterleavedNext ==
    \/ Start
    \/ GitLog
    \/ WalkCommit
    \/ FinishContextHistory
    \/ AppendDuringWalk
    \/ DeleteMessageDuringWalk
    \/ DeleteChatDuringWalk

InterleavedSpec == InterleavedInit /\ [][InterleavedNext]_vars

-----------------------------------------------------------------------------
(* C36: one version of the current snapshot per result *)

\* C36: when a store function runs while getGitHistory is suspended, the result
\* still belongs to one version of the current snapshot: the active ids and the
\* ledger that filtered the commits are those of the snapshot whose records gave
\* 'added', which is the stored snapshot when the call returns.
C36_OneSnapshotVersion ==
    (pc = "done" /\ error = "none" /\ revision = "context" /\ fn = "getGitHistory") =>
        /\ currentMessageIds = EntryIds(revision, fn).messages
        /\ currentPanelChatIds = EntryIds(revision, fn).panelChats
        /\ currentInlineChatIds = EntryIds(revision, fn).inlineChats
        /\ deletedMessageIds = ToSet(EntryLedger(revision, fn).deletedChats.deletedMessageIDs)
        /\ deletedPanelChatIds = ToSet(EntryLedger(revision, fn).deletedChats.deletedPanelChatIDs)

-----------------------------------------------------------------------------
(* C37: the shape of the returned ranges *)

\* C37: every returned range lies on one line of the file, from column 0 to the
\* length of that line, the trimmed text of the line is an added line, and the
\* ranges come in strictly ascending line order, so no line is returned twice.
C37_RangesWellFormed ==
    pc = "matched" =>
        /\ \A k \in DOMAIN ranges :
              /\ ranges[k].startLine = ranges[k].endLine
              /\ ranges[k].startLine \in LineNumbers
              /\ ranges[k].startCharacter = 0
              /\ ranges[k].endCharacter = LineLength(LineAt(document, ranges[k].startLine))
              /\ TextAt(ranges[k].startLine) \in DistinctAdded
        /\ \A k, n \in DOMAIN ranges : k < n => ranges[k].startLine < ranges[n].startLine

\* Two lines are returned, the first of them an indented line that ends at
\* column 10.
C37_Witness ==
    /\ pc = "matched"
    /\ Len(ranges) = 2
    /\ LineAt(document, ranges[1].startLine) = Padded("return x")
    /\ ranges[1].endCharacter = 10
    /\ ranges[2].endCharacter < 10

-----------------------------------------------------------------------------
(* C39: what deleteMessage leaves in place *)

\* C39: deleteMessage(id) changes the message list of the first chat that holds
\* the id and nothing else: the ledger, the inline chats, every other chat and the
\* entry of the targeted chat stay in place, also when the chat is left without
\* messages; when no chat holds the id the stored snapshot and the file are left
\* as they were.
C39_DeleteMessageFrame ==
    [][op'.name = "removeMessageFromStashedState" =>
          LET before == readStashedState(stored)
              holding == ChatsHolding(before.panelChats, op'.id)
          IN IF stored.status = "invalid" \/ holding = {}
             THEN stored' = stored /\ disk' = disk
             ELSE /\ stored'.status = "ok"
                  /\ stored'.snap.deletedChats = before.deletedChats
                  /\ stored'.snap.inlineChats = before.inlineChats
                  /\ DOMAIN stored'.snap.panelChats = DOMAIN before.panelChats
                  /\ \A i \in DOMAIN before.panelChats :
                        stored'.snap.panelChats[i] =
                            IF i = Min(holding)
                            THEN [before.panelChats[i] EXCEPT
                                     !.messages = SelectSeq(@, LAMBDA m : m # op'.id)]
                            ELSE before.panelChats[i]
                  /\ disk' \in {Ok(stored'.snap), disk, Invalid}]_vars

\* deleteMessage(m1) returned on a snapshot with a ledger and an inline chat: chat
\* A lost m1, chat B, the ledger and the inline chat are as before.
C39_Witness ==
    /\ Returned("removeMessageFromStashedState")
    /\ op.id = "m1"
    /\ stored = Ok(Snapshot(<<Chat("A", <<"m2">>), Chat("B", <<"m1">>)>>, <<"i1">>,
                            Ledger({"m2"}, {"B"})))

-----------------------------------------------------------------------------
(* redecorate and the commands and listeners of activate that call it *)

\* The most decoration sets of a run, and the most disposals of one set.
MaxSets == 3
MaxDisposals == 2

\* What InlineDecoration.decorateActive(context) does to its caller: it returns a
\* decoration set, returns undefined (no editor, a file of gait, no workspace
\* folder, no inline chats), or throws: readStashedState hands it the stored
\* value unvalidated, and spreading panelChats or reading
\* deletedChats.deletedPanelChatIDs of a value that lacks them is a TypeError.
DecorateOutcomes == {"set", "undefined", "throws"}

\* decoration.dispose() on every member of the set and on its hover provider.
Dispose(counts, set) ==
    IF set = 0 THEN counts ELSE [counts EXCEPT ![set] = @ + 1]

\* redecorate(context) with decorationsActive = active: the set it keeps is
\* disposed and stays in disposibleDecorations; when active, the value
\* decorateActive returns replaces it.
redecorate(active, outcome) ==
    /\ outcome = "set" => created < MaxSets
    /\ disposibleDecorations # 0 => disposals[disposibleDecorations] < MaxDisposals
    /\ IF active /\ outcome = "set"
       THEN /\ created' = created + 1
            /\ disposibleDecorations' = created + 1
            /\ disposals' = Append(Dispose(disposals, disposibleDecorations), 0)
       ELSE /\ created' = created
            /\ disposibleDecorations' =
                  IF active /\ outcome = "undefined" THEN 0 ELSE disposibleDecorations
            /\ disposals' = Dispose(disposals, disposibleDecorations)

LifecycleInit ==
    /\ revision = "extension"
    /\ fn = "getGitHistory"
    /\ missing = "none"
    /\ stored = Absent
    /\ pc = "activate"
    /\ currentMessageIds = {}
    /\ currentPanelChatIds = {}
    /\ currentInlineChatIds = {}
    /\ deletedPanelChatIds = {}
    /\ deletedMessageIds = {}
    /\ repo = <<>>
    /\ allCommitsMap = <<>>
    /\ seenMessageIds = {}
    /\ status = "unasked"
    /\ buffer = Unread
    /\ result = EmptyResult
    /\ error = "none"
    /\ disk = Absent
    /\ op = NoOp
    /\ returned = NothingReturned
    /\ appends = "single"
    /\ shown = {}
    /\ idToCommitInfo = NoEntries
    /\ document = <<>>
    /\ diff = <<>>
    /\ ranges = <<>>
    /\ NoEditor

\* What the handlers of this section leave alone.
LifecycleFrame ==
    UNCHANGED <<revision, fn, missing, stored, currentMessageIds, currentPanelChatIds,
                currentInlineChatIds, deletedPanelChatIds, deletedMessageIds, repo,
                allCommitsMap, seenMessageIds, status, buffer, result, error, disk, op,
                returned, appends, shown, idToCommitInfo, document, diff, ranges,
                currentMessages, processed, rangesToPanel>>

\* activate(context): the call of redecorate at its end.
Activate ==
    /\ pc = "activate"
    /\ pc' = "listening"
    /\ event' = "activate"
    /\ decorationsActive' = decorationsActive
    /\ \E outcome \in DecorateOutcomes : redecorate(decorationsActive, outcome)
    /\ LifecycleFrame

\* gait-copilot.activateDecorations
ActivateDecorations ==
    /\ pc = "listening"
    /\ event' = "activateDecorations"
    /\ decorationsActive' = TRUE
    /\ \E outcome \in DecorateOutcomes : redecorate(TRUE, outcome)
    /\ UNCHANGED pc
    /\ LifecycleFrame

\* gait-copilot.deactivateDecorations
DeactivateDecorations ==
    /\ pc = "listening"
    /\ event' = "deactivateDecorations"
    /\ decorationsActive' = FALSE
    /\ disposibleDecorations # 0 => disposals[disposibleDecorations] < MaxDisposals
    /\ disposals' = Dispose(disposals, disposibleDecorations)
    /\ disposibleDecorations' = 0
    /\ UNCHANGED <<pc, created>>
    /\ LifecycleFrame

\* onDidChangeActiveTextEditor and onDidSaveTextDocument
EditorChangeOrSave ==
    /\ pc = "listening"
    /\ \E e \in {"editorChange", "documentSave"} : event' = e
    /\ decorationsActive' = decorationsActive
    /\ \E outcome \in DecorateOutcomes : redecorate(decorationsActive, outcome)
    /\ UNCHANGED pc
    /\ LifecycleFrame

\* gait-copilot.acceptInlineChat, which calls redecorate only when there is an
\* active editor.
AcceptInlineChat ==
    /\ pc = "listening"
    /\ event' = "acceptInline"
    /\ decorationsActive' = decorationsActive
    /\ \E editor \in BOOLEAN :
          IF editor
          THEN \E outcome \in DecorateOutcomes : redecorate(decorationsActive, outcome)
          ELSE UNCHANGED <<disposibleDecorations, created, disposals>>
    /\ UNCHANGED pc
    /\ LifecycleFrame

\* gait-copilot.removeInlineChat
RemoveInlineChat ==
    /\ pc = "listening"
    /\ event' = "removeInline"
    /\ decorationsActive' = decorationsActive
    /\ \E outcome \in DecorateOutcomes : redecorate(decorationsActive, outcome)
    /\ UNCHANGED pc
    /\ LifecycleFrame

LifecycleNext ==
    \/ Activate
    \/ ActivateDecorations
    \/ DeactivateDecorations
    \/ EditorChangeOrSave
    \/ AcceptInlineChat
    \/ RemoveInlineChat

LifecycleSpec == LifecycleInit /\ [][LifecycleNext]_vars

-----------------------------------------------------------------------------
(* C38: the life of a decoration set *)

\* The decoration sets that were created and not disposed.
LiveSets == {s \in DOMAIN disposals : disposals[s] = 0}

\* C38: under every sequence of the six events at most one decoration set is live,
\* the set kept before is disposed before a new one is stored, no decoration set
\* is disposed twice, and from deactivateDecorations until the next
\* activateDecorations no decoration set is created or kept.
C38_DecorationLifecycle ==
    /\ [](Cardinality(LiveSets) <= 1)
    /\ [](\A s \in DOMAIN disposals : disposals[s] <= 1)
    /\ [](~decorationsActive => disposibleDecorations = 0)
    /\ [][(~decorationsActive /\ ~decorationsActive') => created' = created]_vars
    /\ [][created' # created =>
             (disposibleDecorations = 0 \/ disposals'[disposibleDecorations] >= 1)]_vars

=============================================================================
